---- MODULE Spec2Model ----
(***************************************************************************)
(* SlobDict: the dictionary registry (DictionaryManager), the search       *)
(* coordinator and entry resolver (SlobClient) and the search-as-you-type  *)
(* path of the main window (MainWindow), as state machines.                *)
(*                                                                         *)
(* Strings that the code inspects character by character (search terms     *)
(* and queries) are sequences of ASCII code points; file names, ids and    *)
(* labels, which the code only compares and concatenates, are strings.     *)
(***************************************************************************)
EXTENDS Integers, Sequences, FiniteSets, TLC

\* ------------------------------------------------------------------ bounds
\* Largest limit a direct caller passes to search().
MaxLimit == 3
\* Number of search-text changes the main window issues.
MaxRequests == 2
\* Number of registry reloads started while searches are in flight.
MaxReloads == 1
\* Number of registry operations in a run of the registry specification.
MaxOps == 2
\* The limit _search_task passes to search() (150 in the code), scaled down.
UiSearchLimit == 1

\* Python's None, for an absent request id.  `if request_id and ...' treats
\* None and 0 alike, and the window's ids start at 1.
None == 0

\* ------------------------------------------------------------- characters
chA == 65
chB == 66
cha == 97
chb == 98

\* The two threads of the window's pool, and the thread of the HTTP bridge,
\* which calls search() directly.
Workers == {1, 2}
HttpThread == 3
Threads == Workers \cup {HttpThread}

\* ---------------------------------------------------------- pure helpers
Min(a, b) == IF a < b THEN a ELSE b

Take(s, n) == SubSeq(s, 1, Min(Len(s), n))

\* str.casefold() on ASCII text: upper-case letters map to lower case.
casefold(t) ==
    [i \in 1..Len(t) |-> IF t[i] >= 65 /\ t[i] <= 90 THEN t[i] + 32 ELSE t[i]]

\* Python's `<' on str: lexicographic by code point.
StrLess(s, t) ==
    \E k \in 1..(Min(Len(s), Len(t)) + 1) :
        /\ \A j \in 1..(k - 1) : s[j] = t[j]
        /\ \/ k > Len(s) /\ k <= Len(t)
           \/ k <= Len(s) /\ k <= Len(t) /\ s[k] < t[k]

IsPrefix(q, key) == Len(q) <= Len(key) /\ SubSeq(key, 1, Len(q)) = q

\* ------------------------------------------------- dictionary file contents
\* What an installed .slob file can hold.  "A" and "B" are sound, "A2"
\* carries the same embedded id as "A", "S" opens but its index breaks
\* while it is being read, "X" does not open at all.
Contents == {"A", "B", "A2", "S", "X"}
NoFile == "none"

SlobId(c) ==
    CASE c = "A" -> "idA"
      [] c = "A2" -> "idA"
      [] c = "B" -> "idB"
      [] c = "S" -> "idS"
      [] OTHER -> "idX"

\* Whether the file carries a label tag, and its value.
HasLabelTag(c) == c \in {"A", "B", "S"}
LabelTag(c) == "Label " \o c

\* The blobs of a file in the order of its index.
Blobs(c) ==
    CASE c = "A" -> << [id |-> 0, key |-> <<cha, chb>>],
                       [id |-> 1, key |-> <<cha>>],
                       [id |-> 2, key |-> <<cha, chB>>],
                       [id |-> 3, key |-> <<chb>>] >>
      [] c = "A2" -> << [id |-> 0, key |-> <<cha>>] >>
      [] c = "B" -> << [id |-> 0, key |-> <<cha, chB>>],
                       [id |-> 1, key |-> <<cha, chb>>],
                       [id |-> 2, key |-> <<chB>>] >>
      [] c = "S" -> << [id |-> 0, key |-> <<cha, chb>>],
                       [id |-> 1, key |-> <<cha>>] >>
      [] OTHER -> << >>

\* Slob(path) raises for a file that is not a readable container.
OpenFails(c) == c = "X"

\* The position in a prefix scan at which reading the file raises
\* (0: never).
ScanFailAt(c) == IF c = "S" THEN 2 ELSE 0

\* find(query, slob, match_prefix=True): the blobs whose key starts with
\* the query, in index order.
Find(q, c) == SelectSeq(Blobs(c), LAMBDA b : IsPrefix(q, b.key))

Queries == { <<cha>>, <<cha, chb>>, <<chb>> }

\* slob.get(blob_id): the content type and the content of a blob; it raises
\* for an id the file does not hold.  The blob "B" of the file "B" is
\* empty.
HasBlob(c, id) == \E i \in 1..Len(Blobs(c)) : Blobs(c)[i].id = id
BlobContentType(c, id) == IF id = 0 THEN "text/html" ELSE "text/plain"
BlobContent(c, id) ==
    IF c = "B" /\ id = 2 THEN ""
    ELSE CASE id = 0 -> c \o "#0"
           [] id = 1 -> c \o "#1"
           [] id = 2 -> c \o "#2"
           [] OTHER -> c \o "#3"

\* ------------------------------------------------------------------ state
VARIABLES
    \* DictionaryManager
    disk,                       \* dicts_dir: file name -> content or NoFile
    metadata,                   \* self.metadata, in insertion order
    metadata_file,              \* dictionaries.json as last saved
    last_call,                  \* the last registry or resolver call and its outcome
    ops,                        \* registry operations performed so far
    \* SlobClient
    dict_objs,                  \* every dict object self.dictionaries was bound to
    closed_slobs,               \* the Slob handles that were closed
    current_request_id,
    reloads,                    \* reloads started so far
    \* ThreadPoolExecutor(max_workers=2)
    task_queue,
    frames,                     \* per thread: the frame of its search() call
    \* MainWindow and the GLib main loop
    request_counter,
    current_search_request_id,
    search_text,
    idle_queue,
    results_list,
    main_pc,                    \* where the main thread is inside load_dictionaries
    reload_list,                \* the get_dictionaries() list being loaded
    \* HTTPRequestHandler
    http_response,              \* the last response written for GET /find
    \* DictionaryCatalogManager and the files it works on
    catalogs,                   \* self.catalogs: source -> catalog or NoCatalog
    cache_dir,                  \* cache_dir: cache key -> content file, sidecar
    local_files,                \* the catalog files on the local disk
    remote_docs,                \* the document each catalog URL serves
    cat_call,                   \* the last catalog call and its outcome
    cat_ops                     \* catalog calls performed so far

registryVars == << disk, metadata, metadata_file, last_call, ops >>
clientVars == << dict_objs, closed_slobs, current_request_id, reloads >>
poolVars == << task_queue, frames >>
windowVars == << request_counter, current_search_request_id, search_text,
                 idle_queue, results_list, main_pc, reload_list >>
catalogVars == << catalogs, cache_dir, local_files, remote_docs, cat_call,
                  cat_ops >>
vars == << registryVars, clientVars, poolVars, windowVars, http_response,
           catalogVars >>

\* self.dictionaries: the dict object currently bound.
dictionaries == dict_objs[Len(dict_objs)]

\* --------------------------------------------------------------- registry
FileNames == {"a.slob", "b.slob"}

MetaIndex(meta, fn) ==
    IF \E i \in 1..Len(meta) : meta[i].filename = fn
    THEN CHOOSE i \in 1..Len(meta) : meta[i].filename = fn
    ELSE 0

MetaHas(meta, fn) == MetaIndex(meta, fn) # 0

\* A listing that does not look at the files.
get_dictionaries_all(meta, dsk) == meta

\* DictionaryManager.get_dictionaries: the metadata entries whose file
\* exists, in metadata order.
get_dictionaries(meta, dsk) ==
    SelectSeq(meta, LAMBDA m : dsk[m.filename] # NoFile)

\* DictionaryManager._extract_metadata: id, blob count, tags, and the file
\* stem as the label when the file has no label tag.
ExtractFails(c) == OpenFails(c)
extract_metadata(fn, c, stem) ==
    [filename |-> fn, id |-> SlobId(c), blob_count |-> Len(Blobs(c)),
     label |-> IF HasLabelTag(c) THEN LabelTag(c) ELSE stem,
     enabled |-> TRUE]

\* `self.metadata[filename] = entry': a known file name keeps its position.
MetaPut(meta, m) ==
    IF MetaHas(meta, m.filename)
    THEN [i \in 1..Len(meta) |->
             IF meta[i].filename = m.filename THEN m ELSE meta[i]]
    ELSE Append(meta, m)

\* The sources a user can hand to import: sound, corrupt, missing, empty and
\* unreadable files, and a directory in a foreign format.  `content' is what
\* a .slob source holds, or what the converter makes of a foreign source.
Source(stem, exists, kind, empty, readable, slob, content) ==
    [stem |-> stem, exists |-> exists, kind |-> kind, empty |-> empty,
     readable |-> readable, slob |-> slob, content |-> content]

Sources ==
    { Source("a", TRUE, "file", FALSE, TRUE, TRUE, "A"),
      Source("a", TRUE, "file", FALSE, TRUE, TRUE, "B"),
      Source("b", TRUE, "file", FALSE, TRUE, TRUE, "X"),
      Source("b", TRUE, "dir", FALSE, TRUE, FALSE, "B"),
      Source("a", FALSE, "file", FALSE, TRUE, TRUE, "A"),
      Source("b", TRUE, "file", TRUE, TRUE, TRUE, "B"),
      Source("a", TRUE, "file", FALSE, FALSE, TRUE, "A") }

\* The output names a caller passes ("" for none).
OutputNames == {"", "b"}

\* What the copy and the converter can do to the destination.
CopyOutcomes == {"ok", "error", "partial", "mismatch"}
ConvertOutcomes == {"ok", "error", "partial"}

\* DictionaryManager._validate_input_source: the error it raises ("" for
\* none).
ValidateError(src) ==
    IF ~src.exists THEN "FileNotFoundError"
    ELSE IF src.kind = "file"
         THEN (IF src.empty THEN "ValueError"
               ELSE IF ~src.readable THEN "PermissionError" ELSE "")
    ELSE IF src.kind = "dir"
         THEN (IF ~src.readable THEN "PermissionError" ELSE "")
    ELSE "ValueError"

\* `output_name or source.stem', and the destination file name.
ImportStem(src, output_name) ==
    IF output_name # "" THEN output_name ELSE src.stem
SlobFilename(src, output_name) == ImportStem(src, output_name) \o ".slob"

\* The record of an import and its outcome: `result' is the returned file
\* name ("" when the call raised), `raised' the error ("" for none), `stage'
\* the statement the call ended in.
ImportCall(dsk, meta, src, output_name, result, raised, copied, converted, stage) ==
    LET fn == SlobFilename(src, output_name) IN
    [op |-> "import", source |-> src, output_name |-> output_name,
     filename |-> fn, valid |-> ValidateError(src) = "",
     existed |-> dsk[fn] # NoFile, old_content |-> dsk[fn],
     had_meta |-> MetaHas(meta, fn), result |-> result, raised |-> raised,
     copied |-> copied, converted |-> converted, stage |-> stage]

\* The branch of import_dictionary for a destination that exists and needs
\* no metadata, or whose metadata cannot be read: nothing is written.
ImportExistingAsIs(dsk, meta, src, output_name) ==
    [disk |-> dsk, metadata |-> meta, saved |-> FALSE,
     call |-> ImportCall(dsk, meta, src, output_name,
                         SlobFilename(src, output_name), "", FALSE, FALSE,
                         "existing")]

\* An import that copies over a destination that exists and renews its
\* metadata.
ImportExistingRecopy(dsk, meta, src, output_name) ==
    LET fn == SlobFilename(src, output_name) IN
    [disk |-> [dsk EXCEPT ![fn] = src.content],
     metadata |-> IF ExtractFails(src.content) THEN meta
                  ELSE MetaPut(meta, extract_metadata(
                                   fn, src.content,
                                   ImportStem(src, output_name))),
     saved |-> ~ExtractFails(src.content),
     call |-> ImportCall(dsk, meta, src, output_name, fn, "", TRUE, FALSE,
                         "existing")]

\* The branch of import_dictionary for a destination that exists: the file
\* is kept, missing metadata is extracted from it and stored, and the file
\* name is returned also when the extraction fails.
ImportExisting(dsk, meta, src, output_name) ==
    LET fn == SlobFilename(src, output_name) IN
    IF MetaHas(meta, fn) \/ ExtractFails(dsk[fn])
    THEN ImportExistingAsIs(dsk, meta, src, output_name)
    ELSE [disk |-> dsk,
          metadata |-> MetaPut(meta, extract_metadata(
                                   fn, dsk[fn], ImportStem(src, output_name))),
          saved |-> TRUE,
          call |-> ImportCall(dsk, meta, src, output_name, fn, "",
                              FALSE, FALSE, "existing")]

\* An import that ends with an error: the directory is left as `d', the
\* metadata are not touched.
ImportFailed(dsk, d, meta, src, output_name, raised, stage) ==
    LET is_slob == src.kind = "file" /\ src.slob IN
    [disk |-> d, metadata |-> meta, saved |-> FALSE,
     call |-> ImportCall(dsk, meta, src, output_name, "", raised,
                         is_slob, ~is_slob, stage)]

\* A copy that keeps a destination of the wrong size.
copy_slob_file_keep(dsk, fn, src, copy) ==
    CASE copy = "ok" -> [disk |-> [dsk EXCEPT ![fn] = src.content],
                         raised |-> "", stage |-> "copy"]
      [] copy = "error" -> [disk |-> dsk, raised |-> "IOError",
                            stage |-> "copy"]
      [] copy = "partial" -> [disk |-> [dsk EXCEPT ![fn] = "X"],
                              raised |-> "IOError", stage |-> "copy_partial"]
      [] OTHER -> [disk |-> [dsk EXCEPT ![fn] = "X"], raised |-> "IOError",
                   stage |-> "copy_verify"]

\* DictionaryManager._copy_slob_file: shutil.copy2 writes the destination
\* ("ok"), raises before it wrote anything ("error"), raises after it wrote
\* a part ("partial": the part stays), or leaves a destination whose size
\* differs from the source's ("mismatch": the destination is unlinked and
\* IOError is raised).
copy_slob_file(dsk, fn, src, copy) ==
    CASE copy = "ok" -> [disk |-> [dsk EXCEPT ![fn] = src.content],
                         raised |-> "", stage |-> "copy"]
      [] copy = "error" -> [disk |-> dsk, raised |-> "IOError",
                            stage |-> "copy"]
      [] copy = "partial" -> [disk |-> [dsk EXCEPT ![fn] = "X"],
                              raised |-> "IOError", stage |-> "copy_partial"]
      [] OTHER -> [disk |-> [dsk EXCEPT ![fn] = NoFile], raised |-> "IOError",
                   stage |-> "copy_verify"]

\* A conversion that leaves the converter's partial output in place.
convert_to_slob_keep(dsk, fn, src, conv) ==
    CASE conv = "ok" -> [disk |-> [dsk EXCEPT ![fn] = src.content],
                         raised |-> "", stage |-> "convert"]
      [] conv = "error" -> [disk |-> dsk, raised |-> "RuntimeError",
                            stage |-> "convert"]
      [] OTHER -> [disk |-> [dsk EXCEPT ![fn] = "X"],
                   raised |-> "RuntimeError", stage |-> "convert_cleanup"]

\* DictionaryManager._convert_to_slob: the converter writes the destination
\* ("ok"), fails without output or is not available ("error"), or fails
\* after it wrote a part of the output ("partial"); the except clause
\* unlinks the destination if it exists and re-raises.
convert_to_slob(dsk, fn, src, conv) ==
    CASE conv = "ok" -> [disk |-> [dsk EXCEPT ![fn] = src.content],
                         raised |-> "", stage |-> "convert"]
      [] conv = "error" -> [disk |-> dsk, raised |-> "RuntimeError",
                            stage |-> "convert"]
      [] OTHER -> [disk |-> [[dsk EXCEPT ![fn] = "X"] EXCEPT ![fn] = NoFile],
                   raised |-> "RuntimeError", stage |-> "convert_cleanup"]

\* An import that returns the file name although the metadata could not be
\* extracted.
ExtractAndStoreSwallow(dsk, d, meta, src, output_name) ==
    LET fn == SlobFilename(src, output_name)
        is_slob == src.kind = "file" /\ src.slob
    IN  [disk |-> d,
         metadata |-> IF ExtractFails(d[fn]) THEN meta
                      ELSE MetaPut(meta, extract_metadata(
                                       fn, d[fn], ImportStem(src, output_name))),
         saved |-> ~ExtractFails(d[fn]),
         call |-> ImportCall(dsk, meta, src, output_name, fn, "",
                             is_slob, ~is_slob, "extract")]

\* The end of import_dictionary for a destination `d[fn]' just written: the
\* metadata are extracted from it, stored with enabled = True and saved; a
\* failed extraction is raised again, the file stays, nothing is stored.
ExtractAndStore(dsk, d, meta, src, output_name) ==
    LET fn == SlobFilename(src, output_name)
        is_slob == src.kind = "file" /\ src.slob
    IN  IF ExtractFails(d[fn])
        THEN ImportFailed(dsk, d, meta, src, output_name, "Exception",
                          "extract")
        ELSE [disk |-> d,
              metadata |-> MetaPut(meta, extract_metadata(
                                       fn, d[fn], ImportStem(src, output_name))),
              saved |-> TRUE,
              call |-> ImportCall(dsk, meta, src, output_name, fn, "",
                                  is_slob, ~is_slob, "done")]

\* The branch of import_dictionary for a new destination: copy or convert,
\* then extract and store the metadata.
ImportFresh(dsk, meta, src, output_name, copy, conv) ==
    LET fn == SlobFilename(src, output_name)
        is_slob == src.kind = "file" /\ src.slob
        w == IF is_slob THEN copy_slob_file(dsk, fn, src, copy)
             ELSE convert_to_slob(dsk, fn, src, conv)
    IN  IF w.raised # ""
        THEN ImportFailed(dsk, w.disk, meta, src, output_name, w.raised,
                          w.stage)
        ELSE ExtractAndStore(dsk, w.disk, meta, src, output_name)

\* DictionaryManager.import_dictionary.
import_dictionary(dsk, meta, src, output_name, copy, conv) ==
    IF ValidateError(src) # ""
    THEN [disk |-> dsk, metadata |-> meta, saved |-> FALSE,
          call |-> ImportCall(dsk, meta, src, output_name, "",
                              ValidateError(src), FALSE, FALSE, "validate")]
    ELSE IF dsk[SlobFilename(src, output_name)] # NoFile
    THEN ImportExisting(dsk, meta, src, output_name)
    ELSE ImportFresh(dsk, meta, src, output_name, copy, conv)

\* DictionaryManager.delete_dictionary on the metadata.
DeleteMeta(meta, fn) == SelectSeq(meta, LAMBDA m : m.filename # fn)

\* A delete that takes a missing file for an error.
delete_dictionary_strict(dsk, meta, fn, unlink_ok) ==
    IF dsk[fn] = NoFile \/ ~unlink_ok
    THEN [disk |-> dsk, metadata |-> meta, saved |-> FALSE, result |-> FALSE]
    ELSE [disk |-> [dsk EXCEPT ![fn] = NoFile],
          metadata |-> DeleteMeta(meta, fn),
          saved |-> MetaHas(meta, fn), result |-> TRUE]

\* DictionaryManager.delete_dictionary: the file is unlinked if it exists,
\* the metadata entry is dropped and saved if there is one, True is
\* returned; an unlink that raises is caught and False is returned with
\* nothing changed.
delete_dictionary(dsk, meta, fn, unlink_ok) ==
    IF dsk[fn] # NoFile /\ ~unlink_ok
    THEN [disk |-> dsk, metadata |-> meta, saved |-> FALSE, result |-> FALSE]
    ELSE [disk |-> [dsk EXCEPT ![fn] = NoFile],
          metadata |-> DeleteMeta(meta, fn),
          saved |-> MetaHas(meta, fn), result |-> TRUE]

\* DictionaryManager.set_dictionary_enabled: the flag of a known entry is
\* set and saved and True is returned; an unknown file name gives False.
SetEnabledMeta(meta, fn, en) ==
    [i \in 1..Len(meta) |->
        IF meta[i].filename = fn THEN [meta[i] EXCEPT !.enabled = en]
        ELSE meta[i]]

\* A set_dictionary_enabled that stores the entry anew with the flag.
set_dictionary_enabled_reset(meta, fn, en) ==
    IF MetaHas(meta, fn)
    THEN [metadata |-> [i \in 1..Len(meta) |->
                           IF meta[i].filename = fn
                           THEN [meta[i] EXCEPT !.enabled = en,
                                                !.label = "reset"]
                           ELSE meta[i]],
          saved |-> TRUE, result |-> TRUE]
    ELSE [metadata |-> meta, saved |-> FALSE, result |-> FALSE]

set_dictionary_enabled(meta, fn, en) ==
    IF MetaHas(meta, fn)
    THEN [metadata |-> SetEnabledMeta(meta, fn, en), saved |-> TRUE,
          result |-> TRUE]
    ELSE [metadata |-> meta, saved |-> FALSE, result |-> FALSE]

\* ----------------------------------------------------------- SlobClient
\* dict's item assignment: a new key is appended, an existing key keeps its
\* position and gets the new value.
DictPut(d, e) ==
    IF \E i \in 1..Len(d) : d[i].dict_id = e.dict_id
    THEN [i \in 1..Len(d) |-> IF d[i].dict_id = e.dict_id THEN e ELSE d[i]]
    ELSE Append(d, e)

\* One round of the loop of load_dictionaries for the registry entry m:
\* disabled entries are skipped, a file that fails to open is skipped, an
\* opened file is stored under the registry's id.
LoadOne(d, m, dsk, gen) ==
    IF ~m.enabled THEN d
    ELSE IF dsk[m.filename] = NoFile THEN d
    ELSE IF OpenFails(dsk[m.filename]) THEN d
    ELSE DictPut(d, [dict_id |-> m.id, dict_name |-> m.label,
                     slob |-> [gen |-> gen, file |-> m.filename,
                               content |-> dsk[m.filename]]])

\* A loading loop that an open error leaves: the entries after the broken
\* file are not loaded.
OpenStepAbort(d, list, dsk, gen) ==
    LET m == Head(list) IN
    IF m.enabled /\ dsk[m.filename] # NoFile /\ OpenFails(dsk[m.filename])
    THEN [dict |-> d, rest |-> << >>]
    ELSE [dict |-> LoadOne(d, m, dsk, gen), rest |-> Tail(list)]

\* One round of the loop of load_dictionaries over the list it got from
\* get_dictionaries(): the first entry is loaded, the loop goes on with the
\* others whatever happened.
OpenStep(d, list, dsk, gen) ==
    [dict |-> LoadOne(d, Head(list), dsk, gen), rest |-> Tail(list)]

RECURSIVE LoadAll(_, _, _, _)
LoadAll(d, list, dsk, gen) ==
    IF list = << >> THEN d
    ELSE LoadAll(LoadOne(d, Head(list), dsk, gen), Tail(list), dsk, gen)

\* SlobClient.close: every handle of the live dict is closed.
SlobsOf(d) == { d[i].slob : i \in 1..Len(d) }

\* ----------------------------------------------------------------- search
\* list.sort(key=...) is stable: an element goes after every element whose
\* key is not greater than its own.
RECURSIVE InsertByKey(_, _)
InsertByKey(s, e) ==
    IF s = << >> THEN << e >>
    ELSE IF StrLess(casefold(e.term), casefold(Head(s).term))
         THEN << e >> \o s
         ELSE << Head(s) >> \o InsertByKey(Tail(s), e)

RECURSIVE SortInto(_, _)
SortInto(acc, s) ==
    IF s = << >> THEN acc ELSE SortInto(InsertByKey(acc, Head(s)), Tail(s))

\* A sort on the term itself, without the case fold.
RECURSIVE InsertByTerm(_, _)
InsertByTerm(s, e) ==
    IF s = << >> THEN << e >>
    ELSE IF StrLess(e.term, Head(s).term)
         THEN << e >> \o s
         ELSE << Head(s) >> \o InsertByTerm(Tail(s), e)

RECURSIVE SortByTerm(_)
SortByTerm(s) ==
    IF s = << >> THEN << >>
    ELSE InsertByTerm(SortByTerm(SubSeq(s, 1, Len(s) - 1)), s[Len(s)])

SortByCasefold(s) == SortInto(<< >>, s)

\* A return without the slice.
SearchResultUnsliced(results, limit) == SortByCasefold(results)

\* The last two statements of search(): sort, then slice.
SearchResult(results, limit) == Take(SortByCasefold(results), limit)

\* A merge that drops a match whose term some earlier entry already has.
MergeMatchesDedup(results, cur, matches) ==
    results \o
    [i \in 1..Len(SelectSeq(matches, LAMBDA m :
                      \A j \in 1..Len(results) : results[j].term # m.key)) |->
        LET kept == SelectSeq(matches, LAMBDA m :
                        \A j \in 1..Len(results) : results[j].term # m.key)
        IN  [dict_id |-> cur.dict_id, dict_name |-> cur.dict_name,
             term_id |-> kept[i].id, term |-> kept[i].key]]

\* The loop body of search() after _find_in_slob returned `matches' for the
\* source `cur': one DictEntry per match.
MergeMatches(results, cur, matches) ==
    results \o [i \in 1..Len(matches) |->
                   [dict_id |-> cur.dict_id, dict_name |-> cur.dict_name,
                    term_id |-> matches[i].id, term |-> matches[i].key]]

\* `if request_id and request_id != self.current_request_id'
Cancelled(request_id, current) == request_id # None /\ request_id # current

NoSlob == [gen |-> 0, file |-> "", content |-> NoFile]
NoEntry == [dict_id |-> "", dict_name |-> "", slob |-> NoSlob]

\* A thread that is not inside search().  `failed' records the positions of
\* the sources whose scan raised (it is logged, never read by the code).
IdleFrame ==
    [pc |-> "idle", caller |-> "none", query |-> << >>, request_id |-> None,
     limit |-> 0, obj |-> 0, size |-> 0, di |-> 0, cur |-> NoEntry, si |-> 0,
     matches |-> << >>, results |-> << >>, failed |-> {}, out |-> << >>]

\* `results = []' and the evaluation of self.dictionaries.items(): the
\* loop iterates the dict object bound at this moment.
BeginFrame(r, objs) ==
    [r EXCEPT !.pc = "loop", !.obj = Len(objs), !.size = Len(objs[Len(objs)]),
              !.di = 0, !.results = << >>]

\* One next() of the dict iterator and the check at the top of the loop
\* body.  The iterator raises RuntimeError when the dict changed size; the
\* error leaves search().
LoopFrame(r, objs, current) ==
    LET d == objs[r.obj] IN
    IF Len(d) # r.size THEN [r EXCEPT !.pc = "raised"]
    ELSE IF r.di = Len(d) THEN [r EXCEPT !.pc = "ret"]
    ELSE IF Cancelled(r.request_id, current)
         THEN [r EXCEPT !.pc = "returned", !.out = << >>]
    ELSE [r EXCEPT !.pc = "scan", !.di = r.di + 1, !.cur = d[r.di + 1],
                   !.si = 0, !.matches = << >>]

\* A scan error that is not caught and leaves search().
ScanRaisedAbort(r) == [r EXCEPT !.pc = "raised", !.failed = r.failed \cup {r.di}]

\* _find_in_slob's `except Exception': the error is logged and the matches
\* collected so far are returned; search() appends them and goes on.
ScanRaised(r) ==
    [r EXCEPT !.results = MergeMatches(r.results, r.cur, r.matches),
              !.failed = r.failed \cup {r.di}, !.pc = "loop"]

\* One iteration of the loop of _find_in_slob that read its item.
ScanNext(r, current) ==
    LET hits == Find(r.query, r.cur.slob.content) IN
    IF r.si >= Len(hits)
    THEN [r EXCEPT !.results = MergeMatches(r.results, r.cur, r.matches),
                   !.pc = "loop"]
    ELSE IF Cancelled(r.request_id, current)
         THEN [r EXCEPT !.matches = << >>, !.pc = "loop"]
    ELSE LET m == Append(r.matches, hits[r.si + 1]) IN
         IF r.si = r.limit
         THEN [r EXCEPT !.matches = m, !.pc = "loop",
                        !.results = MergeMatches(r.results, r.cur, m)]
         ELSE [r EXCEPT !.matches = m, !.si = r.si + 1]

\* `results.sort(...)' and `return results[:limit]'.
ReturnFrame(r) ==
    [r EXCEPT !.pc = "returned", !.out = SearchResult(r.results, r.limit)]

\* ---------------------------------------------------- search(): the steps
SearchBegin(t) ==
    /\ frames[t].pc = "begin"
    /\ frames' = [frames EXCEPT ![t] = BeginFrame(frames[t], dict_objs)]
    /\ UNCHANGED << registryVars, clientVars, task_queue, windowVars >>
    /\ UNCHANGED << catalogVars, http_response >>

SearchLoop(t) ==
    /\ frames[t].pc = "loop"
    /\ frames' = [frames EXCEPT
                    ![t] = LoopFrame(frames[t], dict_objs, current_request_id)]
    /\ UNCHANGED << registryVars, clientVars, task_queue, windowVars >>
    /\ UNCHANGED << catalogVars, http_response >>

\* Reading a closed handle raises, unless the item is still in the handle's
\* cache; reading a broken index raises at the broken position.
FindStep(t) ==
    /\ frames[t].pc = "scan"
    /\ LET r == frames[t]
           h == r.cur.slob
       IN  \/ /\ h \in closed_slobs \/ ScanFailAt(h.content) = r.si + 1
              /\ frames' = [frames EXCEPT ![t] = ScanRaised(r)]
           \/ /\ ScanFailAt(h.content) # r.si + 1
              /\ frames' = [frames EXCEPT
                              ![t] = ScanNext(r, current_request_id)]
    /\ UNCHANGED << registryVars, clientVars, task_queue, windowVars >>
    /\ UNCHANGED << catalogVars, http_response >>

SearchReturn(t) ==
    /\ frames[t].pc = "ret"
    /\ frames' = [frames EXCEPT ![t] = ReturnFrame(frames[t])]
    /\ UNCHANGED << registryVars, clientVars, task_queue, windowVars >>
    /\ UNCHANGED << catalogVars, http_response >>

\* ------------------------------------------- the HTTP bridge's /find call
\* Query parameters after parse_qs, as sequences of code points.  parse_qs
\* drops a parameter with a blank value, so << >> stands for a parameter
\* that is absent or blank, and query.get(name, [default])[0] is:
QueryGet(value, default) == IF value = << >> THEN default ELSE value

IsDigit(c) == c >= 48 /\ c <= 57
IsSpace(c) == c = 32 \/ (c >= 9 /\ c <= 13)

\* str.strip(), as int() applies it to its argument.
RECURSIVE Strip(_)
Strip(s) ==
    IF s = << >> THEN s
    ELSE IF IsSpace(Head(s)) THEN Strip(Tail(s))
    ELSE IF IsSpace(s[Len(s)]) THEN Strip(SubSeq(s, 1, Len(s) - 1))
    ELSE s

\* The digits of a stripped literal, without its sign.
Unsigned(t) == IF t # << >> /\ Head(t) \in {43, 45} THEN Tail(t) ELSE t

RECURSIVE DigitsValue(_)
DigitsValue(u) ==
    IF u = << >> THEN 0
    ELSE DigitsValue(SubSeq(u, 1, Len(u) - 1)) * 10 + (u[Len(u)] - 48)

\* int(limit_str): ValueError unless the text is an optionally signed run
\* of decimal digits, surrounded by white space at most.
IntRaises(s) ==
    LET u == Unsigned(Strip(s))
    IN  u = << >> \/ \E i \in 1..Len(u) : ~IsDigit(u[i])

IntValue(s) ==
    LET t == Strip(s)
    IN  IF Head(t) = 45 THEN 0 - DigitsValue(Unsigned(t))
        ELSE DigitsValue(Unsigned(t))

DefaultLimit == << 49, 48, 48 >>

\* The limit check of the 413 answer made before the key check (a variant
\* the code does not implement).
find_request_limit_first(key, limit) ==
    LET limit_str == QueryGet(limit, DefaultLimit)
    IN  IF ~IntRaises(limit_str) /\ IntValue(limit_str) > 10000
        THEN [status |-> 413, limit |-> 0]
        ELSE IF QueryGet(key, << >>) = << >>
        THEN [status |-> 400, limit |-> 0]
        ELSE IF IntRaises(limit_str) \/ IntValue(limit_str) <= 0
        THEN [status |-> 0, limit |-> 100]
        ELSE [status |-> 0, limit |-> IntValue(limit_str)]

\* _handle_find up to the call of search(): the status of an early answer
\* (0 when there is none) and the limit handed to search().
find_request(key, limit) ==
    LET limit_str == QueryGet(limit, DefaultLimit)
    IN  IF QueryGet(key, << >>) = << >>
        THEN [status |-> 400, limit |-> 0]
        ELSE IF IntRaises(limit_str) THEN [status |-> 0, limit |-> 100]
        ELSE IF IntValue(limit_str) > 10000
        THEN [status |-> 413, limit |-> 0]
        ELSE IF IntValue(limit_str) <= 0 THEN [status |-> 0, limit |-> 100]
        ELSE [status |-> 0, limit |-> IntValue(limit_str)]

\* No response written yet; a search is in progress or none was asked for.
NoResponse == [status |-> 0, items |-> << >>]

\* The loop that formats the results.  Its first statement subscripts the
\* result (result['source']); a DictEntry defines properties only and no
\* __getitem__, so the subscript raises TypeError for the first result, and
\* do_GET turns every exception into a 500 answer.  An empty list is
\* answered with 200 and no items.
find_response(results) ==
    IF results = << >> THEN [status |-> 200, items |-> << >>]
    ELSE [status |-> 500, items |-> << >>]

\* do_GET for /find, up to the call of search(): an early answer is written
\* at once; otherwise search() is entered with the key and the limit, and
\* no request id.
HandleFind(key, limit) ==
    LET req == find_request(key, limit) IN
    /\ frames[HttpThread].pc = "idle"
    /\ IF req.status # 0
       THEN /\ http_response' = [status |-> req.status, items |-> << >>]
            /\ UNCHANGED frames
       ELSE /\ http_response' = NoResponse
            /\ frames' = [frames EXCEPT
                            ![HttpThread] = [IdleFrame EXCEPT !.pc = "begin",
                                                !.caller = "http",
                                                !.query = key,
                                                !.limit = req.limit]]
    /\ UNCHANGED << registryVars, clientVars, task_queue, windowVars >>
    /\ UNCHANGED catalogVars

\* search() has returned or raised: the response is written and the
\* handler returns.
HandleFindDone ==
    /\ frames[HttpThread].pc \in {"returned", "raised"}
    /\ http_response' = IF frames[HttpThread].pc = "raised"
                        THEN [status |-> 500, items |-> << >>]
                        ELSE find_response(frames[HttpThread].out)
    /\ frames' = [frames EXCEPT ![HttpThread] = IdleFrame]
    /\ UNCHANGED << registryVars, clientVars, task_queue, windowVars >>
    /\ UNCHANGED catalogVars

\* The key and limit parameters of the requests: absent, and for the limit
\* "x", "0", "-1", " 1", the small limits, "10000" and "10001".
KeyParams == Queries \cup { << >> }
LimitParams ==
    { << >>, << 120 >>, << 48 >>, << 45, 49 >>, << 32, 49 >>,
      << 49, 48, 48, 48, 48 >>, << 49, 48, 48, 48, 49 >> }
        \cup { << 48 + n >> : n \in 1..MaxLimit }

\* ------------------------------------------------ MainWindow: the search
\* The body of _on_search_changed in the lookup view: a new request id is
\* issued; a non-empty text is submitted to the pool, an empty one clears
\* the list at once.
SearchChanged(text) ==
    /\ request_counter' = request_counter + 1
    /\ current_search_request_id' = request_counter + 1
    /\ search_text' = text
    /\ IF text # << >>
       THEN /\ task_queue' = Append(task_queue,
                                    [query |-> text,
                                     request_id |-> request_counter + 1])
            /\ results_list' = results_list
       ELSE /\ task_queue' = task_queue
            /\ results_list' = << >>

\* The user edits the search entry.
OnSearchChanged(text) ==
    /\ main_pc = "idle"
    /\ request_counter < MaxRequests
    /\ text # search_text
    /\ SearchChanged(text)
    /\ UNCHANGED << registryVars, clientVars, frames, idle_queue, main_pc,
                    reload_list >>
    /\ UNCHANGED << catalogVars, http_response >>

\* A pool thread takes the oldest submitted task.
TaskStart(w) ==
    /\ frames[w].pc = "idle"
    /\ task_queue # << >>
    /\ frames' = [frames EXCEPT
                    ![w] = [IdleFrame EXCEPT !.pc = "set", !.caller = "ui",
                               !.query = Head(task_queue).query,
                               !.request_id = Head(task_queue).request_id,
                               !.limit = UiSearchLimit]]
    /\ task_queue' = Tail(task_queue)
    /\ UNCHANGED << registryVars, clientVars, windowVars >>
    /\ UNCHANGED << catalogVars, http_response >>

\* SlobClient.set_current_request, called first by _search_task.
SetCurrentRequest(w) ==
    /\ frames[w].pc = "set"
    /\ current_request_id' = frames[w].request_id
    /\ frames' = [frames EXCEPT ![w] = [@ EXCEPT !.pc = "begin"]]
    /\ UNCHANGED << registryVars, dict_objs, closed_slobs, reloads,
                    task_queue, windowVars >>
    /\ UNCHANGED << catalogVars, http_response >>

\* The end of _search_task: the results are handed to the main loop only
\* if the request is still the window's current one.
TaskDone(w) ==
    /\ frames[w].pc = "returned"
    /\ frames[w].caller = "ui"
    /\ idle_queue' =
           IF frames[w].request_id = current_search_request_id
           THEN Append(idle_queue, [results |-> frames[w].out,
                                    request_id |-> frames[w].request_id])
           ELSE idle_queue
    /\ frames' = [frames EXCEPT ![w] = IdleFrame]
    /\ UNCHANGED << registryVars, clientVars, task_queue, request_counter,
                    current_search_request_id, search_text, results_list,
                    main_pc, reload_list >>
    /\ UNCHANGED << catalogVars, http_response >>

\* An error that left search() ends the task; the future keeps it.
TaskFailed(w) ==
    /\ frames[w].pc = "raised"
    /\ frames[w].caller = "ui"
    /\ frames' = [frames EXCEPT ![w] = IdleFrame]
    /\ UNCHANGED << registryVars, clientVars, task_queue, windowVars >>
    /\ UNCHANGED << catalogVars, http_response >>

\* The main loop runs the oldest idle callback: _populate_results replaces
\* the rows of the list by the results it was given.
PopulateResults ==
    /\ main_pc = "idle"
    /\ idle_queue # << >>
    /\ results_list' = Head(idle_queue).results
    /\ idle_queue' = Tail(idle_queue)
    /\ UNCHANGED << registryVars, clientVars, poolVars, request_counter,
                    current_search_request_id, search_text, main_pc,
                    reload_list >>
    /\ UNCHANGED << catalogVars, http_response >>

\* --------------------------- SlobClient.set_dictionary_enabled and reload
\* The first statement of load_dictionaries, self.close(): every handle of
\* the live dict is closed.
StartReload ==
    /\ closed_slobs' = closed_slobs \cup SlobsOf(dictionaries)
    /\ reloads' = reloads + 1
    /\ main_pc' = "rebind"

\* SlobClient.set_dictionary_enabled (the switch of the dictionaries
\* dialog): the flag of a known entry is stored and the dictionaries are
\* reloaded; an unknown file name changes nothing.
ClientSetEnabled(fn, en) ==
    /\ main_pc = "idle"
    /\ LET res == set_dictionary_enabled(metadata, fn, en)
       IN  /\ last_call' = [op |-> "set_enabled", filename |-> fn,
                            enabled |-> en, result |-> res.result]
           /\ metadata' = res.metadata
           /\ metadata_file' = IF res.saved THEN res.metadata
                               ELSE metadata_file
           /\ IF res.result THEN StartReload
              ELSE UNCHANGED << closed_slobs, reloads, main_pc >>
    /\ ops' = ops + 1
    /\ UNCHANGED << disk, dict_objs, current_request_id, poolVars,
                    request_counter, current_search_request_id, search_text,
                    idle_queue, results_list, reload_list >>
    /\ UNCHANGED << catalogVars, http_response >>

\* SlobClient.delete_dictionary (the delete button of the dialog): the file
\* is removed if it is there, the metadata entry is dropped, and the
\* dictionaries are reloaded; when removing the file fails nothing changes.
ClientDelete(fn, unlink_ok) ==
    /\ main_pc = "idle"
    /\ ops' = ops + 1
    /\ LET res == delete_dictionary(disk, metadata, fn, unlink_ok)
       IN  /\ last_call' = [op |-> "delete", filename |-> fn,
                            existed |-> disk[fn] # NoFile,
                            unlink_ok |-> unlink_ok, result |-> res.result]
           /\ disk' = res.disk
           /\ metadata' = res.metadata
           /\ metadata_file' = IF res.saved THEN res.metadata
                               ELSE metadata_file
           /\ IF res.result THEN StartReload
              ELSE UNCHANGED << closed_slobs, reloads, main_pc >>
    /\ UNCHANGED << dict_objs, current_request_id, poolVars,
                    request_counter, current_search_request_id, search_text,
                    idle_queue, results_list, reload_list >>
    /\ UNCHANGED << catalogVars, http_response >>

\* The import of the dictionaries dialog: DictionaryManager.import_dictionary
\* is called on the client's manager; the dialog refreshes its own list.
DialogImport(src, output_name, copy, conv) ==
    /\ main_pc = "idle"
    /\ LET res == import_dictionary(disk, metadata, src, output_name,
                                    copy, conv)
       IN  /\ disk' = res.disk
           /\ metadata' = res.metadata
           /\ metadata_file' = IF res.saved THEN res.metadata
                               ELSE metadata_file
           /\ last_call' = res.call
    /\ ops' = ops + 1
    /\ UNCHANGED << clientVars, poolVars, windowVars >>
    /\ UNCHANGED << catalogVars, http_response >>

\* An installed file is damaged outside the program: it no longer opens.
FileDamaged(fn) ==
    /\ main_pc = "idle"
    /\ disk[fn] \notin {NoFile, "X"}
    /\ disk' = [disk EXCEPT ![fn] = "X"]
    /\ last_call' = [op |-> "damaged", filename |-> fn]
    /\ ops' = ops + 1
    /\ UNCHANGED << metadata, metadata_file, clientVars, poolVars,
                    windowVars >>
    /\ UNCHANGED << catalogVars, http_response >>

\* An installed file is removed outside the program; its metadata entry
\* stays.
FileRemoved(fn) ==
    /\ main_pc = "idle"
    /\ disk[fn] # NoFile
    /\ disk' = [disk EXCEPT ![fn] = NoFile]
    /\ last_call' = [op |-> "removed", filename |-> fn]
    /\ ops' = ops + 1
    /\ UNCHANGED << metadata, metadata_file, clientVars, poolVars,
                    windowVars >>
    /\ UNCHANGED << catalogVars, http_response >>

\* `self.dictionaries = {}' and the call of get_dictionaries().
ReloadRebind ==
    /\ main_pc = "rebind"
    /\ dict_objs' = Append(dict_objs, << >>)
    /\ reload_list' = get_dictionaries(metadata, disk)
    /\ main_pc' = "open"
    /\ UNCHANGED << registryVars, closed_slobs, current_request_id, reloads,
                    poolVars, request_counter, current_search_request_id,
                    search_text, idle_queue, results_list >>
    /\ UNCHANGED << catalogVars, http_response >>

\* One round of the loading loop.
ReloadOpen ==
    /\ main_pc = "open"
    /\ reload_list # << >>
    /\ LET step == OpenStep(dictionaries, reload_list, disk, Len(dict_objs))
       IN  /\ dict_objs' = [dict_objs EXCEPT ![Len(dict_objs)] = step.dict]
           /\ reload_list' = step.rest
    /\ UNCHANGED << registryVars, closed_slobs, current_request_id, reloads,
                    poolVars, request_counter, current_search_request_id,
                    search_text, idle_queue, results_list, main_pc >>
    /\ UNCHANGED << catalogVars, http_response >>

\* on_dictionaries_changed: the window repeats the search for its text.
ReloadNotify ==
    /\ main_pc = "open"
    /\ reload_list = << >>
    /\ SearchChanged(search_text)
    /\ main_pc' = "idle"
    /\ UNCHANGED << registryVars, clientVars, frames, idle_queue,
                    reload_list >>
    /\ UNCHANGED << catalogVars, http_response >>

\* --------------------------------------------------------- initial states
NoCall == [op |-> "none"]

\* Registries that imports of sound files leave behind: each of the two
\* files installed with one of its contents, enabled or not, in either
\* order of import.
MetaOf(fn, c, en) == [extract_metadata(fn, c, "stem") EXCEPT !.enabled = en]

InstalledRegistries ==
    { [disk |-> [f \in FileNames |-> IF f = "a.slob" THEN ca ELSE cb],
       metadata |-> IF ord = 1
                    THEN << MetaOf("a.slob", ca, ea), MetaOf("b.slob", cb, eb) >>
                    ELSE << MetaOf("b.slob", cb, eb), MetaOf("a.slob", ca, ea) >>] :
        ca \in {"A", "S"}, cb \in {"B", "A2", "A"},
        ea \in BOOLEAN, eb \in BOOLEAN, ord \in {1, 2} }

\* ------------------------------------------------ DictionaryCatalogManager
\* Catalog sources: two local paths and two URLs.  The code tells them
\* apart by their text: a URL starts with http:// or https://, and a path
\* or URL ending in .plist or .xml is first read as a property list.
LocalPaths == { "/c/cat.plist", "/c/out.json" }
RemoteUrls == { "https://h/a.plist", "https://h/b.json" }
CatalogSources == LocalPaths \cup RemoteUrls

is_remote_source(source) == source \in RemoteUrls
HasPlistSuffix(source) == source \in { "/c/cat.plist", "https://h/a.plist" }

\* Python's None (or the empty string, which `if source:' treats alike).
NoSource == ""

AppleAssetType == "com.apple.MobileAsset.DictionaryServices.dictionaryOSX"

\* An entry of a document's `dictionaries' or `Assets' array.  A native
\* entry carries id, url and hash; an Apple asset carries
\* DictionaryIdentifier (id), __BaseURL (base), __RelativePath (rel) and
\* _Measurement (hash), which a property list holds as <data>, read by
\* plistlib as bytes.
NativeItem(id, url, hash) ==
    [id |-> id, base |-> "", rel |-> "", url |-> url, hash |-> hash,
     hash_bytes |-> FALSE]

AppleAsset(id, rel, hash, hash_bytes) ==
    [id |-> id, base |-> "https://cdn/", rel |-> rel, url |-> "",
     hash |-> hash, hash_bytes |-> hash_bytes]

\* The documents a catalog file or URL can hold.
NoDoc ==
    [syntax |-> "missing", AssetType |-> "", Assets |-> << >>,
     dictionaries |-> << >>]

GarbageDoc == [NoDoc EXCEPT !.syntax = "garbage"]

NativeDoc ==
    [syntax |-> "json", AssetType |-> "", Assets |-> << >>,
     dictionaries |-> << NativeItem("d1", "u1", "h1"),
                         NativeItem("d2", "u2", "h2") >>]

NativeDupDoc ==
    [syntax |-> "json", AssetType |-> "", Assets |-> << >>,
     dictionaries |-> << NativeItem("d1", "u1", "h1"),
                         NativeItem("d1", "u2", "h2") >>]

ApplePlistDoc ==
    [syntax |-> "plist", AssetType |-> AppleAssetType,
     Assets |-> << AppleAsset("d1", "r1", "h1", TRUE),
                   AppleAsset("d2", "r2", "h2", TRUE) >>,
     dictionaries |-> << >>]

AppleJsonDoc ==
    [syntax |-> "json", AssetType |-> AppleAssetType,
     Assets |-> << AppleAsset("d1", "r1", "h1", FALSE) >>,
     dictionaries |-> << >>]

OtherAssetPlistDoc ==
    [syntax |-> "plist", AssetType |-> "com.apple.MobileAsset.Font",
     Assets |-> << AppleAsset("d1", "r1", "h1", TRUE) >>,
     dictionaries |-> << >>]

OtherAssetJsonDoc ==
    [syntax |-> "json", AssetType |-> "com.apple.MobileAsset.Font",
     Assets |-> << AppleAsset("d1", "r1", "h1", FALSE) >>,
     dictionaries |-> << >>]

\* A descriptor (the Dictionary dataclass), reduced to the fields the
\* documents above set; the other fields take their defaults everywhere.
Descriptor(id, url, hash, hash_bytes) ==
    [id |-> id, url |-> url, hash |-> hash, hash_bytes |-> hash_bytes]

\* Dictionary.from_dict on a JSON object.
from_dict(item) == Descriptor(item.id, item.url, item.hash, item.hash_bytes)

\* Parsed data: `type' ("" when the document has no such key) and the
\* `dictionaries' list, whose elements are JSON objects ("dict"),
\* Dictionary objects ("Dictionary") or strings ("str").
NoData == [type |-> "", dictionaries |-> << >>]

\* _normalize_apple_catalog, reached only with the expected AssetType: one
\* Dictionary object per asset, the url joined from base and relative path.
normalize_apple_catalog(doc) ==
    [type |-> "apple",
     dictionaries |->
        [i \in 1..Len(doc.Assets) |->
            LET asset == doc.Assets[i]
            IN  [kind |-> "Dictionary",
                 d |-> Descriptor(asset.id,
                                  IF asset.base # ""
                                  THEN asset.base \o asset.rel
                                  ELSE asset.url,
                                  asset.hash, asset.hash_bytes)]]]

\* `return data': the loaded document itself, "assumed to be already in our
\* format"; only its `type' and `dictionaries' keys are read afterwards.
AsLoaded(doc) ==
    [type |-> "",
     dictionaries |-> [i \in 1..Len(doc.dictionaries) |->
                          [kind |-> "dict", d |-> from_dict(doc.dictionaries[i])]]]

\* CatalogParser.parse: plistlib for a .plist/.xml source; when that fails,
\* and for every other source, JSON.  The Apple normalisation is applied
\* only when AssetType equals the expected value; any other document is
\* returned as loaded.  Content that is neither raises ValueError (for a
\* binary property list, its subclass UnicodeDecodeError).
parse(doc, source) ==
    LET loads == \/ doc.syntax = "json"
                 \/ doc.syntax = "plist" /\ HasPlistSuffix(source)
    IN  IF ~loads THEN [raised |-> "ValueError", data |-> NoData]
        ELSE IF doc.AssetType = AppleAssetType
        THEN [raised |-> "", data |-> normalize_apple_catalog(doc)]
        ELSE [raised |-> "", data |-> AsLoaded(doc)]

\* hashlib.md5(source).hexdigest(), the stem of the cache file names.
SourceHash(source) == "md5(" \o source \o ")"
CacheKeys == { SourceHash(s) : s \in CatalogSources }

\* A cache entry: the content file <hash>.json and the sidecar
\* <hash>.meta.json, each of which may be absent.
NoContent == [exists |-> FALSE, data |-> NoData]
NoSidecar == [exists |-> FALSE, source |-> "", timestamp |-> 0, etag |-> ""]
NoCacheEntry == [content |-> NoContent, meta |-> NoSidecar]
EmptyCache == [exists |-> TRUE, entries |-> [k \in CacheKeys |-> NoCacheEntry]]

\* json.dump(data, default=str): a JSON object is written as it is, with a
\* bytes value replaced by its str(); a Dictionary object is not
\* serialisable and is written as the string str(obj).
Dumped(item) ==
    IF item.kind = "Dictionary" THEN [item EXCEPT !.kind = "str"]
    ELSE IF item.d.hash_bytes
    THEN [item EXCEPT !.d.hash = "b'" \o item.d.hash \o "'",
                      !.d.hash_bytes = FALSE]
    ELSE item

CacheForm(data) ==
    [data EXCEPT !.dictionaries =
        [i \in 1..Len(data.dictionaries) |-> Dumped(data.dictionaries[i])]]

\* _save_cache: the content file and the sidecar of the source are written.
save_cache(cache, source, data, etag, now) ==
    [cache EXCEPT !.entries[SourceHash(source)] =
        [content |-> [exists |-> TRUE, data |-> CacheForm(data)],
         meta |-> [exists |-> TRUE, source |-> source, timestamp |-> now,
                   etag |-> etag]]]

\* _load_cache: the content file of the source, or None.
HasCache(cache, source) == cache.entries[SourceHash(source)].content.exists
load_cache(cache, source) == cache.entries[SourceHash(source)].content.data

\* self.catalogs: a catalog object is identified by `oid', the number of
\* the call that created it; oid 0 marks a source that is not in the map.
NoCatalog == [oid |-> 0, source |-> "", type |-> "", dictionaries |-> << >>]
NoCatalogs == [s \in CatalogSources |-> NoCatalog]
Resident(cats, source) == source \in CatalogSources /\ cats[source].oid # 0

\* _create_catalog_from_data: a Dictionary object is taken as it is, a
\* JSON object goes through from_dict; from_dict of a string raises
\* AttributeError ('str' object has no attribute 'get').
CreateRaises(data) ==
    \E i \in 1..Len(data.dictionaries) : data.dictionaries[i].kind = "str"

create_catalog_from_data(source, data, cat_type, oid) ==
    [oid |-> oid, source |-> source, type |-> cat_type,
     dictionaries |-> [i \in 1..Len(data.dictionaries) |->
                          data.dictionaries[i].d]]

\* The outcome of a load_catalog call: the map and the cache after it, the
\* object returned (its oid) or the error raised, and the files read, the
\* cache files read and the fetches made on the way.
LoadOutcome(cats, cache, result, raised, file_reads, cache_reads, fetches, parsed) ==
    [catalogs |-> cats, cache_dir |-> cache, result |-> result,
     raised |-> raised, file_reads |-> file_reads,
     cache_reads |-> cache_reads, fetches |-> fetches, parsed |-> parsed]

\* The catalog object is created and stored under its source.
CreateAndStore(cats, cache, source, data, cat_type, oid, file_reads, cache_reads, fetches, parsed) ==
    IF CreateRaises(data)
    THEN LoadOutcome(cats, cache, 0, "AttributeError", file_reads,
                     cache_reads, fetches, parsed)
    ELSE LoadOutcome([cats EXCEPT ![source] =
                         create_catalog_from_data(source, data, cat_type, oid)],
                     cache, oid, "", file_reads, cache_reads, fetches, parsed)

\* The source is in the map and no refresh is forced, yet the source is
\* read again and a new object is stored (a variant the code does not
\* implement).
LoadResidentAgain(cats, cache, source, oid) ==
    LoadOutcome([cats EXCEPT ![source].oid = oid], cache, oid, "", 1, 0, 0,
                FALSE)

\* `if source in self.catalogs and not force_refresh': the object in the
\* map is returned.
LoadResident(cats, cache, source, oid) ==
    LoadOutcome(cats, cache, cats[source].oid, "", 0, 0, 0, FALSE)

\* The cached data is truthy: the catalog is built from it, with type
\* 'apple', and no fetch is made.
LoadFromCache(cats, cache, source, oid) ==
    CreateAndStore(cats, cache, source, load_cache(cache, source), "apple",
                   oid, 0, 1, 0, FALSE)

\* The parsed data of a URL is saved without a cache entry being written
\* (a variant the code does not implement).
SaveParsedNot(cache, source, data, etag, now) == cache

\* `if is_remote: self._save_cache(source, parsed_data, etag)'.
SaveParsed(cache, source, data, etag, now) ==
    IF is_remote_source(source) THEN save_cache(cache, source, data, etag, now)
    ELSE cache

\* "Load from source": the fetch or the file read, the parse, the cache
\* write for a URL, and the catalog object.  `net' is the outcome of the
\* fetch: whether it succeeds and the ETag header of the answer ("" when
\* there is none).
LoadFromSource(cats, cache, files, remote, source, net, oid, cache_reads) ==
    LET is_remote == is_remote_source(source)
        fr == IF is_remote THEN 0 ELSE 1
        fe == IF is_remote THEN 1 ELSE 0
        doc == IF is_remote THEN remote[source] ELSE files[source]
        parsed == parse(doc, source)
    IN  IF is_remote /\ ~net.ok
        THEN LoadOutcome(cats, cache, 0, "IOError", 0, cache_reads, 1, FALSE)
        ELSE IF ~is_remote /\ doc.syntax = "missing"
        THEN LoadOutcome(cats, cache, 0, "FileNotFoundError", 0, cache_reads,
                         0, FALSE)
        ELSE IF parsed.raised # ""
        THEN LoadOutcome(cats, cache, 0, parsed.raised, fr, cache_reads, fe,
                         FALSE)
        ELSE CreateAndStore(cats,
                            SaveParsed(cache, source, parsed.data, net.etag, oid),
                            source, parsed.data,
                            IF parsed.data.type = "" THEN "slobdict"
                            ELSE parsed.data.type,
                            oid, fr, cache_reads, fe, TRUE)

\* load_catalog.  The timestamp of a cache write and the oid of a new
\* object are both the number of the call.
load_catalog(cats, cache, files, remote, source, force_refresh, net, oid) ==
    IF Resident(cats, source) /\ ~force_refresh
    THEN LoadResident(cats, cache, source, oid)
    ELSE IF is_remote_source(source) /\ ~force_refresh
              /\ HasCache(cache, source)
    THEN LoadFromCache(cats, cache, source, oid)
    ELSE LoadFromSource(cats, cache, files, remote, source, net, oid,
                        IF is_remote_source(source) /\ ~force_refresh
                        THEN 1 ELSE 0)

\* unload_catalog that also removes the source's cache entry (a variant
\* the code does not implement).
unload_catalog_and_cache(cats, cache, source) ==
    [catalogs |-> [cats EXCEPT ![source] = NoCatalog],
     cache_dir |-> [cache EXCEPT !.entries[SourceHash(source)] = NoCacheEntry],
     result |-> Resident(cats, source)]

\* unload_catalog: the entry is deleted from the map.
unload_catalog(cats, cache, source) ==
    IF Resident(cats, source)
    THEN [catalogs |-> [cats EXCEPT ![source] = NoCatalog],
          cache_dir |-> cache, result |-> TRUE]
    ELSE [catalogs |-> cats, cache_dir |-> cache, result |-> FALSE]

\* clear_cache that removes the content file only, and the directory
\* itself when no source is given (a variant the code does not implement).
clear_cache_partly(cache, source) ==
    IF source # NoSource
    THEN [cache EXCEPT !.entries[SourceHash(source)].content = NoContent]
    ELSE [EmptyCache EXCEPT !.exists = FALSE]

\* clear_cache: both files of the source are unlinked (missing_ok); with no
\* source the directory is removed with all it holds and created again.
clear_cache(cache, source) ==
    IF source # NoSource
    THEN [cache EXCEPT !.entries[SourceHash(source)] = NoCacheEntry]
    ELSE EmptyCache

\* DictionaryCatalog.to_dict and json.dump: one JSON object per descriptor
\* (asdict).  A bytes value is not JSON serialisable: json.dump raises
\* TypeError after the file was opened for writing and partly written.
ExportRaises(catalog) ==
    \E i \in 1..Len(catalog.dictionaries) : catalog.dictionaries[i].hash_bytes

to_dict(catalog) ==
    [syntax |-> "json", AssetType |-> "", Assets |-> << >>,
     dictionaries |-> [i \in 1..Len(catalog.dictionaries) |->
                          LET d == catalog.dictionaries[i]
                          IN  NativeItem(d.id, d.url, d.hash)]]

\* export_catalog: ValueError for a source that is not loaded.
export_catalog(cats, files, source, output_path) ==
    IF ~Resident(cats, source)
    THEN [local_files |-> files, raised |-> "ValueError"]
    ELSE IF ExportRaises(cats[source])
    THEN [local_files |-> [files EXCEPT ![output_path] = GarbageDoc],
          raised |-> "TypeError"]
    ELSE [local_files |-> [files EXCEPT ![output_path] = to_dict(cats[source])],
          raised |-> ""]

\* The outcomes of a fetch: an answer with an ETag, one without, a failure.
NetOutcomes ==
    { [ok |-> TRUE, etag |-> "e1"], [ok |-> TRUE, etag |-> ""],
      [ok |-> FALSE, etag |-> ""] }

NoCatalogCall ==
    [op |-> "none", source |-> "", force_refresh |-> FALSE, output |-> "",
     etag |-> "", result |-> 0, raised |-> "", file_reads |-> 0,
     cache_reads |-> 0, fetches |-> 0, parsed |-> FALSE]

\* A call of load_catalog; its arguments and its outcome are logged.
LoadCatalog(source, force_refresh, net) ==
    LET out == load_catalog(catalogs, cache_dir, local_files, remote_docs,
                            source, force_refresh, net, cat_ops + 1) IN
    /\ catalogs' = out.catalogs
    /\ cache_dir' = out.cache_dir
    /\ cat_call' = [NoCatalogCall EXCEPT !.op = "load_catalog",
                       !.source = source, !.force_refresh = force_refresh,
                       !.etag = IF out.fetches = 1 /\ net.ok THEN net.etag
                                ELSE "",
                       !.result = out.result, !.raised = out.raised,
                       !.file_reads = out.file_reads,
                       !.cache_reads = out.cache_reads,
                       !.fetches = out.fetches, !.parsed = out.parsed]
    /\ cat_ops' = cat_ops + 1
    /\ UNCHANGED << local_files, remote_docs >>
    /\ UNCHANGED << registryVars, clientVars, poolVars, windowVars,
                    http_response >>

UnloadCatalog(source) ==
    LET out == unload_catalog(catalogs, cache_dir, source) IN
    /\ catalogs' = out.catalogs
    /\ cache_dir' = out.cache_dir
    /\ cat_call' = [NoCatalogCall EXCEPT !.op = "unload_catalog",
                       !.source = source,
                       !.result = IF out.result THEN 1 ELSE 0]
    /\ cat_ops' = cat_ops + 1
    /\ UNCHANGED << local_files, remote_docs >>
    /\ UNCHANGED << registryVars, clientVars, poolVars, windowVars,
                    http_response >>

ClearCache(source) ==
    /\ cache_dir' = clear_cache(cache_dir, source)
    /\ cat_call' = [NoCatalogCall EXCEPT !.op = "clear_cache",
                       !.source = source]
    /\ cat_ops' = cat_ops + 1
    /\ UNCHANGED << catalogs, local_files, remote_docs >>
    /\ UNCHANGED << registryVars, clientVars, poolVars, windowVars,
                    http_response >>

ExportCatalog(source, output_path) ==
    LET out == export_catalog(catalogs, local_files, source, output_path) IN
    /\ local_files' = out.local_files
    /\ cat_call' = [NoCatalogCall EXCEPT !.op = "export_catalog",
                       !.source = source, !.output = output_path,
                       !.raised = out.raised]
    /\ cat_ops' = cat_ops + 1
    /\ UNCHANGED << catalogs, cache_dir, remote_docs >>
    /\ UNCHANGED << registryVars, clientVars, poolVars, windowVars,
                    http_response >>

\* A new manager: an empty map, and the cache directory it created.
InitCatalog(local_doc, a_doc, b_doc) ==
    /\ catalogs = NoCatalogs
    /\ cache_dir = EmptyCache
    /\ local_files = [p \in LocalPaths |->
                         IF p = "/c/cat.plist" THEN local_doc ELSE NoDoc]
    /\ remote_docs = [u \in RemoteUrls |->
                         IF u = "https://h/a.plist" THEN a_doc ELSE b_doc]
    /\ cat_call = NoCatalogCall
    /\ cat_ops = 0

InitProgram(reg) ==
    /\ disk = reg.disk
    /\ metadata = reg.metadata
    /\ metadata_file = reg.metadata
    /\ last_call = NoCall
    /\ ops = 0
    /\ dict_objs = << LoadAll(<< >>, get_dictionaries(reg.metadata, reg.disk),
                              reg.disk, 1) >>
    /\ closed_slobs = {}
    /\ current_request_id = -1
    /\ reloads = 0
    /\ task_queue = << >>
    /\ frames = [t \in Threads |-> IdleFrame]
    /\ request_counter = 0
    /\ current_search_request_id = None
    /\ search_text = << >>
    /\ idle_queue = << >>
    /\ results_list = << >>
    /\ main_pc = "idle"
    /\ reload_list = << >>
    /\ http_response = NoResponse

\* The application with a catalog manager that is not used.
InitWith(reg) ==
    /\ InitProgram(reg)
    /\ InitCatalog(NativeDoc, ApplePlistDoc, NativeDoc)

\* -------------------------------------------------- SlobClient.get_entry
\* Python's None for key_id; blob ids start at 0.
NoKeyId == -1

\* What get_entry returns: None, or a DictEntryContent.  `path' tells
\* whether slob.get or find was called, `raised' whether an exception left
\* the call.
NotFound(path) ==
    [found |-> FALSE, path |-> path, raised |-> FALSE, dict_id |-> "",
     dict_name |-> "", term_id |-> NoKeyId, term |-> << >>,
     content_type |-> "", content |-> ""]

EntryRaised(path) == [NotFound(path) EXCEPT !.raised = TRUE]

\* `if content: return DictEntryContent(...)', else the final return None.
EntryContent(dictionary, key, term_id, content_type, content, path) ==
    IF content = "" THEN NotFound(path)
    ELSE [found |-> TRUE, path |-> path, raised |-> FALSE,
          dict_id |-> dictionary.dict_id, dict_name |-> dictionary.dict_name,
          term_id |-> term_id, term |-> key, content_type |-> content_type,
          content |-> content]

\* The loop over find(key, slob, match_prefix=True): every hit is bound to
\* content_type, content and _term_id, and the loop is left at the first
\* hit whose key equals the term or is longer than the term.  `bound' is
\* the hit bound last (Unbound before the first: reading `content' then
\* raises UnboundLocalError), `pos' the position of the next hit, `fail_at'
\* the position at which reading the file raises.
Unbound == [id |-> NoKeyId, key |-> << >>]

RECURSIVE ScanEntry(_, _, _, _, _)
ScanEntry(key, hits, pos, fail_at, bound) ==
    IF pos = fail_at THEN [raised |-> TRUE, blob |-> bound]
    ELSE IF pos > Len(hits) THEN [raised |-> FALSE, blob |-> bound]
    ELSE LET blob == hits[pos] IN
         IF key = blob.key \/ Len(key) < Len(blob.key)
         THEN [raised |-> FALSE, blob |-> blob]
         ELSE ScanEntry(key, hits, pos + 1, fail_at, blob)

\* `if key_id:': None and 0 both take the else branch.
KeyIdGiven(key_id) == key_id # NoKeyId /\ key_id # 0

\* The body of the try block of get_entry.
EntryTry(dictionary, key, key_id) ==
    LET c == dictionary.slob.content IN
    IF KeyIdGiven(key_id)
    THEN IF HasBlob(c, key_id)
         THEN EntryContent(dictionary, key, key_id,
                           BlobContentType(c, key_id),
                           BlobContent(c, key_id), "by_id")
         ELSE EntryRaised("by_id")
    ELSE LET scan == ScanEntry(key, Find(key, c), 1, ScanFailAt(c), Unbound)
         IN  IF scan.raised \/ scan.blob = Unbound
             THEN EntryRaised("find")
             ELSE EntryContent(dictionary, key, scan.blob.id,
                               BlobContentType(c, scan.blob.id),
                               BlobContent(c, scan.blob.id), "find")

\* A get_entry without its except clause.
EntryCaughtNot(r) == r

\* `except Exception: logger.exception(...)', then the final return None.
EntryCaught(r) == IF r.raised THEN NotFound(r.path) ELSE r

\* SlobClient.get_entry(key, key_id, source) on the dict d.
get_entry(d, key, key_id, source) ==
    IF \A i \in 1..Len(d) : d[i].dict_id # source
    THEN NotFound("none")
    ELSE LET dictionary == d[CHOOSE i \in 1..Len(d) : d[i].dict_id = source]
         IN  EntryCaught(EntryTry(dictionary, key, key_id))

\* The terms, term ids and source ids that callers hand to get_entry.
Keys == Queries \cup { <<chA>>, <<chB>>, <<cha, chB>> }
KeyIds == { NoKeyId, 0, 1, 2, 3 }
SourceIds == { "idA", "idB", "idS", "idZ" }

\* A call of get_entry (by the application's lookup, the search provider
\* or the stylesheet handler); its arguments and its outcome are logged.
GetEntry(key, key_id, source) ==
    /\ last_call' = [op |-> "get_entry", key |-> key, key_id |-> key_id,
                     source |-> source,
                     out |-> get_entry(dictionaries, key, key_id, source)]
    /\ UNCHANGED << disk, metadata, metadata_file, ops, clientVars,
                    poolVars, windowVars >>
    /\ UNCHANGED << catalogVars, http_response >>

\* ------------------------------------------ the HTTP bridge's /slob call
\* A response with a body: the status, the Content-Type and the bytes.
SlobResponse(status, content_type, content) ==
    [status |-> status, items |-> << >>, content_type |-> content_type,
     content |-> content]

\* _handle_slob for a path of `parts' parts (path.split("/"); the path
\* /slob/{source}/{key} has four).  A shorter path is answered with 404.
\* Otherwise the handler calls self.slob_client.get_entry(key, source):
\* two positional arguments for the parameters key, key_id and source, so
\* the call raises TypeError (missing argument 'source') before the body
\* of get_entry runs, and do_GET turns the exception into a 500 answer.
\* The statements after the call (404 for None, the content type by the
\* key's suffix, the 200 answer) are never reached, and the blob parameter
\* of the query is never read.
handle_slob(d, parts, source, key, blob) ==
    IF parts < 4 THEN SlobResponse(404, "", "")
    ELSE SlobResponse(500, "", "")

\* The keys and blob ids of the /slob requests.
SlobKeys == { << cha >>, << chb >> }
SlobBlobs == { NoKeyId, 1 }

\* do_GET for a path that starts with /slob/.
HandleSlob(parts, source, key, blob) ==
    /\ http_response' = handle_slob(dictionaries, parts, source, key, blob)
    /\ UNCHANGED << registryVars, clientVars, poolVars, windowVars >>
    /\ UNCHANGED catalogVars

\* ------------------------------------- specification: one caller of search
InitSearch == \E reg \in InstalledRegistries : InitWith(reg)

NextSearch ==
    \/ \E key \in KeyParams, limit \in LimitParams : HandleFind(key, limit)
    \/ SearchBegin(HttpThread)
    \/ SearchLoop(HttpThread)
    \/ FindStep(HttpThread)
    \/ SearchReturn(HttpThread)
    \/ HandleFindDone

SpecSearch == InitSearch /\ [][NextSearch]_vars

\* ------------------- specification: the window's searches and one reload
\* Both dictionaries installed from sound files, in either order.
InitWindow ==
    \E reg \in { g \in InstalledRegistries :
                    /\ g.disk["a.slob"] = "A" /\ g.disk["b.slob"] = "B"
                    /\ \A i \in 1..2 : g.metadata[i].enabled } : InitWith(reg)

Next ==
    \/ \E text \in Queries \cup { << >> } : OnSearchChanged(text)
    \/ \E w \in Workers : TaskStart(w)
    \/ \E w \in Workers : SetCurrentRequest(w)
    \/ \E w \in Workers : SearchBegin(w)
    \/ \E w \in Workers : SearchLoop(w)
    \/ \E w \in Workers : FindStep(w)
    \/ \E w \in Workers : SearchReturn(w)
    \/ \E w \in Workers : TaskDone(w)
    \/ \E w \in Workers : TaskFailed(w)
    \/ PopulateResults
    \/ \E fn \in FileNames, en \in BOOLEAN :
           /\ reloads < MaxReloads
           /\ request_counter < MaxRequests
           /\ ClientSetEnabled(fn, en)
    \/ ReloadRebind
    \/ ReloadOpen
    \/ ReloadNotify

Spec == InitWindow /\ [][Next]_vars

\* ------------------------------ specification: the registry operations
\* An empty registry, two sound dictionaries whose metadata was lost (an
\* unreadable dictionaries.json loads as {}), or two sound dictionaries
\* installed.
InitRegistry ==
    \/ InitWith([disk |-> [f \in FileNames |-> NoFile], metadata |-> << >>])
    \/ InitWith([disk |-> [f \in FileNames |->
                              IF f = "a.slob" THEN "A" ELSE "B"],
                 metadata |-> << >>])
    \/ \E reg \in { g \in InstalledRegistries :
                       g.disk["a.slob"] = "A" /\ g.disk["b.slob"] # "A" } :
           InitWith(reg)

NextRegistry ==
    \/ \E src \in Sources, name \in OutputNames,
          copy \in CopyOutcomes, conv \in ConvertOutcomes :
           ops < MaxOps /\ DialogImport(src, name, copy, conv)
    \/ \E fn \in FileNames, en \in BOOLEAN :
           ops < MaxOps /\ ClientSetEnabled(fn, en)
    \/ \E fn \in FileNames, ok \in BOOLEAN :
           ops < MaxOps /\ ClientDelete(fn, ok)
    \/ \E fn \in FileNames : ops < MaxOps /\ FileDamaged(fn)
    \/ \E fn \in FileNames : ops < MaxOps /\ FileRemoved(fn)
    \/ ReloadRebind
    \/ ReloadOpen
    \/ ReloadNotify

SpecRegistry == InitRegistry /\ [][NextRegistry]_vars

\* ---------------------------------- specification: the entry resolver
InitResolve == \E reg \in InstalledRegistries : InitWith(reg)

NextResolve ==
    \E key \in Keys, key_id \in KeyIds, source \in SourceIds :
        GetEntry(key, key_id, source)

SpecResolve == InitResolve /\ [][NextResolve]_vars

\* ------------------------------ specification: the /slob requests alone
NextSlob ==
    \E parts \in {3, 4}, key \in SlobKeys, blob \in SlobBlobs,
       source \in SourceIds :
        HandleSlob(parts, source, key, blob)

SpecSlob == InitResolve /\ [][NextSlob]_vars

\* ----------------- specification: the window's searches and cancel_request
\* SlobClient.cancel_request(request_id), called for a request the window
\* has issued: the id is stored as the current request id.
CancelRequest(r) ==
    /\ main_pc = "idle"
    /\ current_request_id' = r
    /\ last_call' = [op |-> "cancel_request", request_id |-> r]
    /\ UNCHANGED << disk, metadata, metadata_file, ops, dict_objs,
                    closed_slobs, reloads, poolVars, windowVars >>
    /\ UNCHANGED << catalogVars, http_response >>

NextCancel ==
    \/ \E text \in Queries : OnSearchChanged(text)
    \/ \E w \in Workers : TaskStart(w)
    \/ \E w \in Workers : SetCurrentRequest(w)
    \/ \E w \in Workers : SearchBegin(w)
    \/ \E w \in Workers : SearchLoop(w)
    \/ \E w \in Workers : FindStep(w)
    \/ \E w \in Workers : SearchReturn(w)
    \/ \E w \in Workers : TaskDone(w)
    \/ PopulateResults
    \/ \E r \in 1..request_counter : CancelRequest(r)

SpecCancel == InitWindow /\ [][NextCancel]_vars

\* ------------- specification: the window's searches under fair scheduling
\* The user types; nothing reloads the dictionaries.
NextTyping ==
    \/ \E text \in Queries \cup { << >> } : OnSearchChanged(text)
    \/ \E w \in Workers : TaskStart(w)
    \/ \E w \in Workers : SetCurrentRequest(w)
    \/ \E w \in Workers : SearchBegin(w)
    \/ \E w \in Workers : SearchLoop(w)
    \/ \E w \in Workers : FindStep(w)
    \/ \E w \in Workers : SearchReturn(w)
    \/ \E w \in Workers : TaskDone(w)
    \/ PopulateResults

\* The steps of one thread of the ThreadPoolExecutor up to the end of the
\* loop of search(), and the end of _search_task.
WorkerStep(w) ==
    \/ TaskStart(w)
    \/ SetCurrentRequest(w)
    \/ SearchBegin(w)
    \/ SearchLoop(w)
    \/ FindStep(w)
    \/ TaskDone(w)

\* A thread that has left the loop of search() is at the sort and the
\* return.  SearchReturn(w) is its only step there and is enabled exactly
\* there, so weak fairness of SearchReturn(w) is: the thread is not at
\* "ret" for ever.
ReturnsFairly(w) == []<>(frames[w].pc # "ret")

\* Each pool thread that can run does run, and the GLib main loop runs the
\* idle callbacks queued by GLib.idle_add; the user is free to stop typing.
SpecTypingFair ==
    /\ InitWindow
    /\ [][NextTyping]_vars
    /\ \A w \in Workers : WF_vars(WorkerStep(w))
    /\ \A w \in Workers : ReturnsFairly(w)
    /\ WF_vars(PopulateResults)

\* ------------ specification: registry operations and the window's close
\* MainWindow._on_close: self.slob_client.close() closes every handle of
\* the live dict of the application's SlobClient (the one the search
\* provider uses too); the dict keeps its entries.
WindowClose ==
    /\ main_pc = "idle"
    /\ closed_slobs' = closed_slobs \cup SlobsOf(dictionaries)
    /\ last_call' = [op |-> "window_close"]
    /\ UNCHANGED << disk, metadata, metadata_file, ops, dict_objs,
                    current_request_id, reloads, poolVars, windowVars >>
    /\ UNCHANGED << catalogVars, http_response >>

NextClose ==
    \/ \E fn \in FileNames, en \in BOOLEAN :
           ops < MaxOps /\ ClientSetEnabled(fn, en)
    \/ \E fn \in FileNames, ok \in BOOLEAN :
           ops < MaxOps /\ ClientDelete(fn, ok)
    \/ ReloadRebind
    \/ ReloadOpen
    \/ ReloadNotify
    \/ WindowClose

SpecClose == InitSearch /\ [][NextClose]_vars

\* ------------------------------- specification: the catalog manager alone
\* Number of catalog calls in a run of the catalog specification.
MaxCatalogOps == 3

\* What the file /c/cat.plist and the two URLs hold.
LocalDocs ==
    { NativeDoc, NativeDupDoc, ApplePlistDoc, AppleJsonDoc, OtherAssetPlistDoc,
      GarbageDoc }
PlistUrlDocs == { ApplePlistDoc }
JsonUrlDocs == { NativeDoc, OtherAssetJsonDoc }

InitCatalogs ==
    \E local_doc \in LocalDocs, a_doc \in PlistUrlDocs, b_doc \in JsonUrlDocs :
        /\ InitProgram([disk |-> [f \in FileNames |-> NoFile],
                        metadata |-> << >>])
        /\ InitCatalog(local_doc, a_doc, b_doc)

NextCatalogs ==
    \/ \E source \in CatalogSources, force_refresh \in BOOLEAN,
          net \in NetOutcomes :
           cat_ops < MaxCatalogOps /\ LoadCatalog(source, force_refresh, net)
    \/ \E source \in CatalogSources :
           cat_ops < MaxCatalogOps /\ UnloadCatalog(source)
    \/ \E source \in CatalogSources \cup { NoSource } :
           cat_ops < MaxCatalogOps /\ ClearCache(source)
    \/ \E source \in CatalogSources, output_path \in LocalPaths :
           cat_ops < MaxCatalogOps /\ ExportCatalog(source, output_path)

SpecCatalogs == InitCatalogs /\ [][NextCatalogs]_vars

\* The frames of search() calls that have returned a list.
Returned == { t \in Threads : frames[t].pc = "returned" }

\* The dict object a frame iterates.
IterDict(r) == dict_objs[r.obj]

\* What a prefix scan of the source `cur' hands to search(): the hits in
\* index order, up to the position where the loop breaks (i == limit) or
\* where reading the file raises.
RefHits(cur, q, L) ==
    LET hits == Find(q, cur.slob.content)
        k == ScanFailAt(cur.slob.content)
    IN  Take(hits, IF k > 0 THEN Min(L + 1, k - 1) ELSE L + 1)

RefEntriesOf(cur, q, L) ==
    LET h == RefHits(cur, q, L) IN
    [i \in 1..Len(h) |-> [dict_id |-> cur.dict_id, dict_name |-> cur.dict_name,
                          term_id |-> h[i].id, term |-> h[i].key]]

\* The concatenation of the per-source lists, in source order, for the
\* sources at the positions in `which'.
RECURSIVE RefConcat(_, _, _, _, _)
RefConcat(d, i, which, q, L) ==
    IF i > Len(d) THEN << >>
    ELSE (IF i \in which THEN RefEntriesOf(d[i], q, L) ELSE << >>)
         \o RefConcat(d, i + 1, which, q, L)

\* A stable sort by case-folded term, stated by ranks: an element comes
\* after those with a smaller key and after the earlier ones with its key.
RankIn(c, i) ==
    1 + Cardinality({ j \in 1..Len(c) :
            \/ StrLess(casefold(c[j].term), casefold(c[i].term))
            \/ casefold(c[j].term) = casefold(c[i].term) /\ j < i })

RefSorted(c) ==
    [k \in 1..Len(c) |-> c[CHOOSE i \in 1..Len(c) : RankIn(c, i) = k]]

\* C1: stale results are never shown: when the main loop populates the
\* result list from a search whose token is no longer the window's current
\* one, the list it shows is empty.
C1_NoStalePopulate ==
    [][ (main_pc = "idle" /\ idle_queue # << >>
            /\ idle_queue' = Tail(idle_queue)
            /\ Head(idle_queue).request_id # current_search_request_id)
         => results_list' = << >> ]_vars

\* C2: the coordinator's current token never moves back from a newer
\* request to an older one.
C2_TokenMonotonic ==
    [][ current_request_id' >= current_request_id ]_vars

\* C3: search() called with a token returns a non-empty list only if the
\* token is the coordinator's current one at the moment of the return.
C3_FinalGuard ==
    [][ \A t \in Threads :
            (/\ frames[t].pc \in {"loop", "ret"}
             /\ frames'[t].pc = "returned"
             /\ Cancelled(frames[t].request_id, current_request_id))
            => frames'[t].out = << >> ]_vars

\* C7: a search never reads a handle that a reload has closed, and a
\* reload never makes a search in flight fail.
C7_ConsistentSnapshot ==
    [][ \A t \in Threads :
            /\ (frames[t].pc = "scan" /\ frames'[t] # frames[t])
                   => frames[t].cur.slob \notin closed_slobs
            /\ frames'[t].pc # "raised" ]_vars

\* A reload that a registry operation started has run to its end, and
\* nothing has touched the registry since.
ReloadCompleted ==
    /\ main_pc = "idle"
    /\ last_call.op \in {"set_enabled", "delete"}
    /\ last_call.result

\* The registry entries that are enabled and whose file exists.
EnabledExisting ==
    { i \in 1..Len(metadata) :
        metadata[i].enabled /\ disk[metadata[i].filename] # NoFile }

Opens(i) == ~OpenFails(disk[metadata[i].filename])

\* C9: when a reload ends after an enabled dictionary failed to open, every
\* other enabled, existing dictionary that opens is in the live handle set,
\* with a handle opened by this reload and not closed.
C9_OpenFailureSkipped ==
    (ReloadCompleted /\ \E i \in EnabledExisting : ~Opens(i)) =>
        \A i \in EnabledExisting :
            Opens(i) =>
                \E k \in 1..Len(dictionaries) :
                    /\ dictionaries[k].dict_id = metadata[i].id
                    /\ dictionaries[k].slob.gen = Len(dict_objs)
                    /\ dictionaries[k].slob \notin closed_slobs

\* C9 witness: a reload ended with one enabled dictionary that does not
\* open, listed before another one that was loaded.
C9_Witness ==
    /\ ReloadCompleted
    /\ \E i, j \in EnabledExisting :
           /\ i < j
           /\ ~Opens(i)
           /\ Opens(j)
           /\ \E k \in 1..Len(dictionaries) :
                  dictionaries[k].slob.file = metadata[j].filename

\* An import of a valid source whose destination file existed already.
ReImported ==
    /\ last_call.op = "import"
    /\ last_call.valid
    /\ last_call.existed

\* The metadata entry that import stores for the file `fn' holding `c'.
BackfilledEntry(fn, c, stem) ==
    /\ MetaHas(metadata, fn)
    /\ metadata[MetaIndex(metadata, fn)].id = SlobId(c)
    /\ metadata[MetaIndex(metadata, fn)].enabled
    /\ metadata[MetaIndex(metadata, fn)].label
           = (IF HasLabelTag(c) THEN LabelTag(c) ELSE stem)
    /\ metadata_file = metadata

\* The part of C10 that the amendment keeps: the file name is returned,
\* nothing is copied or converted, and the file is unchanged.
ReImportIsNoOp ==
    /\ last_call.result = last_call.filename
    /\ last_call.raised = ""
    /\ ~last_call.copied
    /\ ~last_call.converted
    /\ disk[last_call.filename] = last_call.old_content

C4_AtMostLimit ==
    \A t \in Returned : Len(frames[t].out) <= frames[t].limit

\* C4 witness: a search that collected more than its limit and returned
\* exactly `limit' entries.
C4_Witness ==
    \E t \in Returned :
        /\ Len(frames[t].results) > frames[t].limit
        /\ Len(frames[t].out) = frames[t].limit

\* Where an entry comes from: the position of its source in the dict being
\* searched and the position of its blob in that source's prefix scan.
SourcePos(r, e) ==
    CHOOSE i \in 1..Len(IterDict(r)) : IterDict(r)[i].dict_id = e.dict_id

ScanPos(r, e) ==
    LET hits == Find(r.query, IterDict(r)[SourcePos(r, e)].slob.content)
    IN  CHOOSE i \in 1..Len(hits) : hits[i].id = e.term_id

Before(r, e1, e2) ==
    \/ SourcePos(r, e1) < SourcePos(r, e2)
    \/ SourcePos(r, e1) = SourcePos(r, e2) /\ ScanPos(r, e1) < ScanPos(r, e2)

\* C5: a returned list is in non-decreasing order of case-folded term, and
\* entries with equal case-folded terms are in source order, then in the
\* order of their source's scan.
C5_SortedStable ==
    \A t \in Returned :
        LET r == frames[t] IN
        \A i, j \in 1..Len(r.out) :
            i < j =>
                /\ ~StrLess(casefold(r.out[j].term), casefold(r.out[i].term))
                /\ casefold(r.out[i].term) = casefold(r.out[j].term)
                       => Before(r, r.out[i], r.out[j])

\* C5 witness: a returned list with two terms that differ only in case,
\* from one source, and two such terms from two sources.
C5_Witness ==
    \E t \in Returned :
        LET r == frames[t] IN
        /\ \E i, j \in 1..Len(r.out) :
               /\ i < j
               /\ r.out[i].term # r.out[j].term
               /\ casefold(r.out[i].term) = casefold(r.out[j].term)
               /\ r.out[i].dict_id = r.out[j].dict_id
        /\ \E i, j \in 1..Len(r.out) :
               /\ i < j
               /\ casefold(r.out[i].term) = casefold(r.out[j].term)
               /\ r.out[i].dict_id # r.out[j].dict_id

C8_ScanFailureSkipped ==
    \A t \in Threads :
        LET r == frames[t]
            d == IterDict(r)
            others == RefConcat(d, 1, (1..Len(d)) \ r.failed, r.query, r.limit)
            kept == SelectSeq(r.out, LAMBDA e : SourcePos(r, e) \notin r.failed)
        IN  /\ r.failed # {} => r.pc # "raised"
            /\ r.pc = "returned" /\ r.failed # {} =>
                   /\ kept = Take(RefSorted(others), Len(kept))
                   /\ Len(r.out) < r.limit => Len(kept) = Len(others)

\* C8 witness: a search in which one source failed returned hits of
\* another source.
C8_Witness ==
    \E t \in Returned :
        LET r == frames[t] IN
        /\ r.failed # {}
        /\ \E i \in 1..Len(r.out) : SourcePos(r, r.out[i]) \notin r.failed

\* ------------------------------------------------ registry operations
\* The step of a registry operation, by the log it leaves.
ImportStep == ops' = ops + 1 /\ last_call'.op = "import"
DeleteStep == ops' = ops + 1 /\ last_call'.op = "delete"
SetEnabledStep == ops' = ops + 1 /\ last_call'.op = "set_enabled"

RegistryUnchanged ==
    disk' = disk /\ metadata' = metadata /\ metadata_file' = metadata_file

\* C11: an import that fails in the conversion stage raises, the
\* destination file does not exist afterwards, and the dictionaries
\* directory and the metadata are what they were before the call.
C11_FailedConversionCleansUp ==
    [][ (ImportStep /\ last_call'.stage \in {"convert", "convert_cleanup"})
        => /\ last_call'.raised # ""
           /\ last_call'.result = ""
           /\ disk'[last_call'.filename] = NoFile
           /\ RegistryUnchanged ]_vars

\* C11 witness: a conversion that had written a part of its output failed,
\* and the destination is not there.
C11_Witness ==
    /\ last_call.op = "import"
    /\ last_call.stage = "convert_cleanup"
    /\ last_call.converted
    /\ last_call.raised = "RuntimeError"
    /\ disk[last_call.filename] = NoFile

\* C12: an import whose copy fails the size check raises, the copy is
\* removed, the metadata are not touched, and an import of the same source
\* afterwards does not find the destination already imported.
C12_CopyMismatchCleansUp ==
    [][ (ImportStep /\ last_call'.stage = "copy_verify")
        => /\ last_call'.raised # ""
           /\ last_call'.result = ""
           /\ disk'[last_call'.filename] = NoFile
           /\ metadata' = metadata /\ metadata_file' = metadata_file
           /\ \A copy \in CopyOutcomes, conv \in ConvertOutcomes :
                  LET again == import_dictionary(
                                   disk', metadata', last_call'.source,
                                   last_call'.output_name, copy, conv).call
                  IN  ~again.existed /\ again.stage # "existing" ]_vars

\* C12 witness: a copy of a sound .slob source failed the size check and
\* the destination is not there.
C12_Witness ==
    /\ last_call.op = "import"
    /\ last_call.stage = "copy_verify"
    /\ last_call.copied
    /\ ~ExtractFails(last_call.source.content)
    /\ disk[last_call.filename] = NoFile
    /\ ~MetaHas(metadata, last_call.filename)

DeleteDone ==
    LET fn == last_call'.filename IN
    /\ last_call'.result = TRUE
    /\ disk'[fn] = NoFile
    /\ ~MetaHas(metadata', fn)
    /\ \A f \in FileNames \ {fn} : disk'[f] = disk[f]
    /\ metadata' = SelectSeq(metadata, LAMBDA m : m.filename # fn)
    /\ \A ok \in BOOLEAN :
           LET again == delete_dictionary(disk', metadata', fn, ok)
           IN  /\ again.result = TRUE
               /\ again.disk = disk'
               /\ again.metadata = metadata'

\* C14 as stated: every delete returns True and leaves neither file nor
\* entry.
C14_Original ==
    [][ DeleteStep => DeleteDone ]_vars

\* C14: delete is idempotent when the file can be removed or is missing:
\* it returns True, file and entry are gone, a missing file is no error, a
\* second delete gives the same, other entries are unchanged; when the
\* removal of the file fails it returns False and changes nothing.
C14_DeleteIdempotent ==
    [][ DeleteStep =>
          IF last_call'.existed /\ ~last_call'.unlink_ok
          THEN last_call'.result = FALSE /\ RegistryUnchanged
          ELSE DeleteDone ]_vars

\* C14 witness: a delete of a name whose file was missing and whose entry
\* was there returned True, with another entry left in the registry.
C14_Witness ==
    /\ last_call.op = "delete"
    /\ ~last_call.existed
    /\ last_call.result
    /\ ~MetaHas(metadata, last_call.filename)
    /\ Len(metadata) = 1
    /\ Len(metadata_file) = 1

\* C15: set_dictionary_enabled changes the enabled flag of the one entry
\* and nothing else: the other fields, the other entries and the files are
\* unchanged; for an unknown name it returns False and changes nothing.
C15_SetEnabledFrame ==
    [][ SetEnabledStep =>
          LET fn == last_call'.filename
              en == last_call'.enabled
          IN  /\ disk' = disk
              /\ IF MetaHas(metadata, fn)
                 THEN /\ last_call'.result = TRUE
                      /\ Len(metadata') = Len(metadata)
                      /\ \A i \in 1..Len(metadata) :
                             metadata'[i] =
                                 IF metadata[i].filename = fn
                                 THEN [metadata[i] EXCEPT !.enabled = en]
                                 ELSE metadata[i]
                 ELSE /\ last_call'.result = FALSE
                      /\ metadata' = metadata
                      /\ metadata_file' = metadata_file ]_vars

\* C15 witness: the flag of one of two entries was switched.
C15_Witness ==
    /\ last_call.op = "set_enabled"
    /\ last_call.result
    /\ Len(metadata) = 2
    /\ \E i, j \in 1..2 :
           /\ metadata[i].filename = last_call.filename
           /\ metadata[i].enabled = last_call.enabled
           /\ metadata[j].filename # last_call.filename
           /\ metadata[j].enabled # last_call.enabled

\* C16: the list get_dictionaries() returns holds exactly the metadata
\* entries whose file exists, each once and in metadata order, whatever
\* was listed before; the entries of missing files stay in the metadata.
C16_ListFiltersMissing ==
    [][ (main_pc = "rebind" /\ main_pc' = "open") =>
          /\ metadata' = metadata
          /\ \A i \in 1..Len(metadata) :
                 disk[metadata[i].filename] # NoFile
                     <=> \E k \in 1..Len(reload_list') :
                             reload_list'[k] = metadata[i]
          /\ \A k \in 1..Len(reload_list') :
                 \E i \in 1..Len(metadata) : reload_list'[k] = metadata[i]
          /\ \A k, l \in 1..Len(reload_list') :
                 k < l => MetaIndex(metadata, reload_list'[k].filename)
                              < MetaIndex(metadata, reload_list'[l].filename)
       ]_vars

\* C16 witness: a listing that left out the entry of a missing file and
\* kept the entry of a file that exists, the first still in the metadata.
C16_Witness ==
    /\ main_pc = "open"
    /\ Len(dictionaries) = 0
    /\ Len(metadata) = 2
    /\ Len(reload_list) = 1
    /\ \E i \in 1..2 : disk[metadata[i].filename] = NoFile

\* ------------------------------------------------------ entry resolver
\* The file behind a source id of the live dict ("none" if it has none).
ContentOfSource(source) ==
    IF \E i \in 1..Len(dictionaries) : dictionaries[i].dict_id = source
    THEN dictionaries[CHOOSE i \in 1..Len(dictionaries) :
                          dictionaries[i].dict_id = source].slob.content
    ELSE NoFile

Resolved == last_call.op = "get_entry"

\* C17: a get_entry call with a term id that the source holds, 0 included,
\* fetches the blob by id and runs no prefix search.
C17_DirectFetchById ==
    (/\ Resolved
     /\ last_call.key_id # NoKeyId
     /\ ContentOfSource(last_call.source) # NoFile
     /\ HasBlob(ContentOfSource(last_call.source), last_call.key_id))
    => last_call.out.path = "by_id"

\* The hits of the prefix scan of a call, and the first of them that
\* satisfies a condition (0 if none does).
HitsOf(call) == Find(call.key, ContentOfSource(call.source))

FirstExact(call) ==
    LET h == HitsOf(call)
        S == { i \in 1..Len(h) : h[i].key = call.key }
    IN  IF S = {} THEN 0 ELSE CHOOSE i \in S : \A j \in S : i <= j

FirstNotLonger(call) ==
    LET h == HitsOf(call)
        S == { i \in 1..Len(h) : Len(h[i].key) <= Len(call.key) }
    IN  IF S = {} THEN 0 ELSE CHOOSE i \in S : \A j \in S : i <= j

\* C18: a get_entry call without a term id returns the content of the first
\* hit whose key equals the term, and, when no hit equals the term, of the
\* first hit whose key is no longer than the term.
C18_ExactThenNotLonger ==
    (/\ Resolved
     /\ last_call.key_id = NoKeyId
     /\ ContentOfSource(last_call.source) # NoFile
     /\ ScanFailAt(ContentOfSource(last_call.source)) = 0
     /\ last_call.out.found)
    => LET h == HitsOf(last_call)
           pick == IF FirstExact(last_call) # 0 THEN FirstExact(last_call)
                   ELSE FirstNotLonger(last_call)
       IN  /\ pick # 0
           /\ last_call.out.term_id = h[pick].id
           /\ last_call.out.content =
                  BlobContent(ContentOfSource(last_call.source), h[pick].id)

\* The term of a call is the key of the blob `id' of its source and of no
\* other blob of that source.
UniqueHeadword(call, id) ==
    LET b == Blobs(ContentOfSource(call.source)) IN
    /\ \E i \in 1..Len(b) : b[i].id = id /\ b[i].key = call.key
    /\ \A i \in 1..Len(b) : b[i].key = call.key => b[i].id = id

\* C19: for a term that is the unique exact headword of the term id X,
\* get_entry with X and get_entry without a term id return the same content
\* and content type, whatever the order of the source's prefix scan.
C19_ByIdAgreesWithByTerm ==
    (/\ Resolved
     /\ last_call.key_id # NoKeyId
     /\ ContentOfSource(last_call.source) # NoFile
     /\ ScanFailAt(ContentOfSource(last_call.source)) = 0
     /\ UniqueHeadword(last_call, last_call.key_id))
    => LET by_term == get_entry(dictionaries, last_call.key, NoKeyId,
                                last_call.source)
       IN  /\ by_term.found = last_call.out.found
           /\ by_term.content = last_call.out.content
           /\ by_term.content_type = last_call.out.content_type

\* C20: get_entry never raises, and it returns None when the source id is
\* not in the live dict, when the prefix scan has no hits, and when the
\* fetch by id fails.
C20_MissIsNone ==
    Resolved =>
        /\ ~last_call.out.raised
        /\ ContentOfSource(last_call.source) = NoFile
               => ~last_call.out.found
        /\ (/\ ContentOfSource(last_call.source) # NoFile
            /\ ~KeyIdGiven(last_call.key_id)
            /\ HitsOf(last_call) = << >>)
               => ~last_call.out.found
        /\ (/\ ContentOfSource(last_call.source) # NoFile
            /\ KeyIdGiven(last_call.key_id)
            /\ ~HasBlob(ContentOfSource(last_call.source), last_call.key_id))
               => ~last_call.out.found

\* C20 witness: a fetch by an id the source does not hold returned None
\* without raising.
C20_Witness ==
    /\ Resolved
    /\ ContentOfSource(last_call.source) # NoFile
    /\ KeyIdGiven(last_call.key_id)
    /\ ~HasBlob(ContentOfSource(last_call.source), last_call.key_id)
    /\ last_call.out.path = "by_id"
    /\ ~last_call.out.found
    /\ ~last_call.out.raised

\* ------------------------------------------------ the catalog manager
\* A step that is a call of the catalog operation `op'.
CatalogStep(op) == cat_ops' = cat_ops + 1 /\ cat_call'.op = op

\* The cache entry of a source.
CacheEntry(cache, source) == cache.entries[SourceHash(source)]

\* The document a load of the source reads or fetches.
DocOf(source) ==
    IF is_remote_source(source) THEN remote_docs[source]
    ELSE local_files[source]

\* The descriptors of a catalog, as a set.
DescriptorSet(catalog) ==
    { catalog.dictionaries[i] : i \in 1..Len(catalog.dictionaries) }

\* C21: a load_catalog without force_refresh of a source that is in the
\* in-memory map returns the very object in the map, reads no file and no
\* cache file, fetches nothing, and leaves the map and the on-disk cache as
\* they were.
C21_ResidentLoadIsMemoryHit ==
    [][(/\ CatalogStep("load_catalog")
        /\ ~cat_call'.force_refresh
        /\ Resident(catalogs, cat_call'.source))
       => /\ cat_call'.raised = ""
          /\ cat_call'.result = catalogs[cat_call'.source].oid
          /\ cat_call'.file_reads = 0
          /\ cat_call'.cache_reads = 0
          /\ cat_call'.fetches = 0
          /\ catalogs' = catalogs
          /\ cache_dir' = cache_dir
          /\ local_files' = local_files]_vars

\* A non-forced load has returned an object that an earlier call created.
C21_Witness ==
    /\ cat_call.op = "load_catalog"
    /\ ~cat_call.force_refresh
    /\ cat_call.result # 0
    /\ cat_call.result < cat_ops
    /\ catalogs[cat_call.source].oid = cat_call.result

\* C22: a load_catalog without force_refresh of a URL that is not in the
\* map, made while a cache entry of the URL exists, returns the cached
\* catalog and fetches nothing.
C22_CachedLoadNeedsNoFetch ==
    [][(/\ CatalogStep("load_catalog")
        /\ ~cat_call'.force_refresh
        /\ is_remote_source(cat_call'.source)
        /\ ~Resident(catalogs, cat_call'.source)
        /\ HasCache(cache_dir, cat_call'.source))
       => /\ cat_call'.fetches = 0
          /\ cat_call'.raised = ""
          /\ cat_call'.result # 0
          /\ Resident(catalogs', cat_call'.source)]_vars

\* C23: a load_catalog of a URL that fetched and parsed the document leaves
\* a cache entry of the URL: the content file with the parsed data as
\* json.dump writes it, and the sidecar with the source, the time of the
\* call and the ETag of the answer; a load_catalog of a local path leaves
\* the cache as it was.
C23_RemoteParseWritesCache ==
    [][CatalogStep("load_catalog")
       => LET source == cat_call'.source
          IN  /\ (is_remote_source(source) /\ cat_call'.parsed)
                 => CacheEntry(cache_dir', source) =
                       [content |->
                           [exists |-> TRUE,
                            data |-> CacheForm(parse(remote_docs[source],
                                                     source).data)],
                        meta |-> [exists |-> TRUE, source |-> source,
                                  timestamp |-> cat_ops',
                                  etag |-> cat_call'.etag]]
              /\ ~is_remote_source(source) => cache_dir' = cache_dir]_vars

\* A fetch answered with an ETag has just been parsed and cached.
C23_Witness ==
    /\ cat_call.op = "load_catalog"
    /\ is_remote_source(cat_call.source)
    /\ cat_call.parsed
    /\ cat_call.fetches = 1
    /\ cat_call.etag = "e1"
    /\ CacheEntry(cache_dir, cat_call.source).content.exists
    /\ CacheEntry(cache_dir, cat_call.source).meta.etag = "e1"
    /\ CacheEntry(cache_dir, cat_call.source).meta.timestamp = cat_ops

\* C24: unload_catalog removes the source from the in-memory map and
\* nothing else: the on-disk cache and the other sources' catalogs are as
\* they were; it returns True when the source was in the map, and returns
\* False and changes nothing when it was not.
C24_UnloadFrame ==
    [][CatalogStep("unload_catalog")
       => LET source == cat_call'.source
          IN  /\ cache_dir' = cache_dir
              /\ local_files' = local_files
              /\ ~Resident(catalogs', source)
              /\ \A s \in CatalogSources \ { source } :
                     catalogs'[s] = catalogs[s]
              /\ cat_call'.result = IF Resident(catalogs, source) THEN 1
                                    ELSE 0
              /\ ~Resident(catalogs, source) => catalogs' = catalogs]_vars

\* A source with a cache entry has been unloaded while another source
\* stays loaded.
C24_Witness ==
    /\ cat_call.op = "unload_catalog"
    /\ cat_call.result = 1
    /\ HasCache(cache_dir, cat_call.source)
    /\ CacheEntry(cache_dir, cat_call.source).meta.exists
    /\ \E s \in CatalogSources : Resident(catalogs, s)

\* C25: clear_cache of a source removes the content file and the sidecar
\* of that source and leaves every other entry as it was; clear_cache
\* without a source leaves the cache directory existing and empty; either
\* way the in-memory map is unchanged, and nothing is raised when there
\* was no entry.
C25_ClearCacheFrame ==
    [][CatalogStep("clear_cache")
       => LET source == cat_call'.source
          IN  /\ catalogs' = catalogs
              /\ local_files' = local_files
              /\ cat_call'.raised = ""
              /\ cache_dir'.exists
              /\ IF source # NoSource
                 THEN /\ CacheEntry(cache_dir', source) = NoCacheEntry
                      /\ \A k \in CacheKeys \ { SourceHash(source) } :
                             cache_dir'.entries[k] = cache_dir.entries[k]
                 ELSE \A k \in CacheKeys :
                          cache_dir'.entries[k] = NoCacheEntry]_vars

\* The entry of one URL has been cleared while the other URL's entry and a
\* loaded catalog remain.
C25_Witness ==
    /\ cat_call.op = "clear_cache"
    /\ cat_call.source \in RemoteUrls
    /\ Resident(catalogs, cat_call.source)
    /\ ~HasCache(cache_dir, cat_call.source)
    /\ \E u \in RemoteUrls : HasCache(cache_dir, u)

\* C26: a load_catalog that reads or fetches a document carrying an
\* AssetType other than the expected one raises the format error
\* (ValueError) and adds nothing to the in-memory map.
C26_WrongAssetTypeRaises ==
    [][(/\ CatalogStep("load_catalog")
        /\ cat_call'.file_reads + cat_call'.fetches = 1
        /\ cat_call'.raised # "IOError"
        /\ DocOf(cat_call'.source).syntax \in { "plist", "json" }
        /\ DocOf(cat_call'.source).AssetType \notin { "", AppleAssetType })
       => /\ cat_call'.raised = "ValueError"
          /\ catalogs' = catalogs]_vars

\* C27: export round trip.  An export_catalog of a catalog that was loaded
\* from a local path succeeds, and the load_catalog that then reads the
\* exported file yields a catalog with the same set of descriptors.
C27_ExportRoundTrip ==
    [][/\ (/\ CatalogStep("export_catalog")
           /\ cat_call'.source \in LocalPaths
           /\ Resident(catalogs, cat_call'.source))
          => cat_call'.raised = ""
       /\ (/\ CatalogStep("load_catalog")
           /\ cat_call.op = "export_catalog"
           /\ cat_call.raised = ""
           /\ cat_call.source \in LocalPaths
           /\ cat_call.output = cat_call'.source
           /\ cat_call'.file_reads = 1)
          => /\ cat_call'.raised = ""
             /\ DescriptorSet(catalogs'[cat_call'.source]) =
                    DescriptorSet(catalogs[cat_call.source])]_vars

\* C28: in every catalog of the in-memory map the descriptor ids are
\* pairwise distinct.
C28_DescriptorIdsUnique ==
    \A s \in CatalogSources :
        Resident(catalogs, s)
        => \A i, j \in 1..Len(catalogs[s].dictionaries) :
               i # j => catalogs[s].dictionaries[i].id #
                            catalogs[s].dictionaries[j].id

\* ---------------------------------------------------- the HTTP bridge
\* The text is a decimal integer, as int() reads it.
Numeric(text) == text # << >> /\ ~IntRaises(text)

\* C29: GET /find.  Without a key the answer is 400, whatever the limit;
\* with a key and a numeric limit above 10000 it is 413; otherwise search()
\* is called with the key and with the limit given, or with 100 when the
\* limit is absent, not numeric, zero or negative.
C29_FindStatusAndLimit ==
    [][\A key \in KeyParams, limit \in LimitParams :
          HandleFind(key, limit)
          => IF key = << >>
             THEN http_response'.status = 400 /\ frames' = frames
             ELSE IF Numeric(limit) /\ IntValue(limit) > 10000
             THEN http_response'.status = 413 /\ frames' = frames
             ELSE /\ http_response'.status = 0
                  /\ frames'[HttpThread].pc = "begin"
                  /\ frames'[HttpThread].query = key
                  /\ frames'[HttpThread].limit =
                        IF Numeric(limit) /\ IntValue(limit) > 0
                        THEN IntValue(limit) ELSE 100]_vars

\* A request with a key and a limit above 10000 has been answered with 413.
C29_Witness ==
    /\ http_response.status = 413
    /\ frames[HttpThread].pc = "idle"

\* urllib.parse.quote(term, safe=''): letters, digits and "_.-~" are kept,
\* every other code point becomes %XX.
HexDigit(n) == IF n < 10 THEN 48 + n ELSE 55 + n

RECURSIVE Quote(_)
Quote(t) ==
    IF t = << >> THEN << >>
    ELSE LET c == Head(t)
         IN  IF \/ c >= 65 /\ c <= 90
                \/ c >= 97 /\ c <= 122
                \/ IsDigit(c)
                \/ c \in { 45, 46, 95, 126 }
             THEN << c >> \o Quote(Tail(t))
             ELSE << 37, HexDigit(c \div 16), HexDigit(c % 16) >>
                      \o Quote(Tail(t))

\* The items the /find answer is to carry: one per DictEntry, in order.
ItemsOf(results) ==
    [i \in 1..Len(results) |->
        [url |-> [dict_id |-> results[i].dict_id,
                  term |-> Quote(results[i].term),
                  blob |-> results[i].term_id],
         label |-> results[i].term,
         dictLabel |-> results[i].dict_name]]

\* C30: when search() has returned its list, GET /find is answered with
\* 200 and one item per DictEntry of the list, in the same order, with the
\* url /slob/{dict_id}/{quoted term}?blob={term_id}, label the term and
\* dictLabel the dictionary name.
C30_FindItems ==
    [][(/\ frames[HttpThread].pc = "returned"
        /\ frames'[HttpThread].pc = "idle")
       => /\ http_response'.status = 200
          /\ http_response'.items = ItemsOf(frames[HttpThread].out)]_vars

\* C31: GET /slob/{source}/{key}?blob={id} with a well-formed path is
\* answered with 200, the bytes and the content type of the entry that
\* get_entry resolves (by the blob id when one is given), and with 404 when
\* get_entry finds nothing; never with 500.
C31_SlobStatus ==
    [][\A key \in SlobKeys, blob \in SlobBlobs, source \in SourceIds :
          HandleSlob(4, source, key, blob)
          => LET entry == get_entry(dictionaries, key, blob, source)
             IN  IF entry.found
                 THEN /\ http_response'.status = 200
                      /\ http_response'.content = entry.content
                      /\ http_response'.content_type = entry.content_type
                 ELSE http_response'.status = 404]_vars

\* C32: the scan of one source collects at most `limit' hits: whenever a
\* thread is inside search(), the matches it holds for the source it scans
\* (or scanned last) are no more than the limit of the call.
C32_ScanCappedAtLimit ==
    \A t \in Threads :
        frames[t].pc \notin { "idle", "set", "begin" }
        => Len(frames[t].matches) <= frames[t].limit

\* The handle that a reload opens for the registry entry i.
HandleOf(i) ==
    [gen |-> Len(dict_objs), file |-> metadata[i].filename,
     content |-> disk[metadata[i].filename]]

\* C33: when a reload has completed, every handle of the dicts bound
\* before it is closed; the live dict holds, for every installed file that
\* is enabled, exists and opens, the handle this reload opened for it, not
\* closed (also when two files carry the same id); and it holds no handle
\* of a file that is disabled or missing.
C33_ReloadHandleSet ==
    ReloadCompleted =>
        /\ \A g \in 1..(Len(dict_objs) - 1) :
               SlobsOf(dict_objs[g]) \subseteq closed_slobs
        /\ \A i \in EnabledExisting :
               Opens(i) => /\ HandleOf(i) \in SlobsOf(dictionaries)
                           /\ HandleOf(i) \notin closed_slobs
        /\ \A h \in SlobsOf(dictionaries) :
               \E i \in EnabledExisting : metadata[i].filename = h.file

\* The catalog that the first load of a URL builds from the document the
\* URL serves: its type and its descriptors.
FirstType(source) ==
    LET data == parse(remote_docs[source], source).data
    IN  IF data.type = "" THEN "slobdict" ELSE data.type

FirstDescriptors(source) ==
    LET data == parse(remote_docs[source], source).data
    IN  [i \in 1..Len(data.dictionaries) |-> data.dictionaries[i].d]

\* C34: a load_catalog of a URL that is served from the on-disk cache (no
\* refresh forced, the URL not in the map, a cache entry present) succeeds
\* and yields a catalog with the type and the descriptors of the catalog
\* that the load which wrote the entry had built.
C34_CacheIsPure ==
    [][(/\ CatalogStep("load_catalog")
        /\ ~cat_call'.force_refresh
        /\ is_remote_source(cat_call'.source)
        /\ ~Resident(catalogs, cat_call'.source)
        /\ HasCache(cache_dir, cat_call'.source))
       => /\ cat_call'.raised = ""
          /\ catalogs'[cat_call'.source].type = FirstType(cat_call'.source)
          /\ catalogs'[cat_call'.source].dictionaries =
                 FirstDescriptors(cat_call'.source)]_vars

\* A load goes to the source: it is not answered from the map or from the
\* cache.
GoesToSource(source, force_refresh) ==
    /\ ~(Resident(catalogs, source) /\ ~force_refresh)
    /\ ~(is_remote_source(source) /\ ~force_refresh
            /\ HasCache(cache_dir, source))

\* The document of the source is missing, is not parseable, or is not a
\* catalog.
NotACatalog(source) ==
    LET doc == DocOf(source)
    IN  \/ doc.syntax \in { "missing", "garbage" }
        \/ doc.syntax = "plist" /\ ~HasPlistSuffix(source)
        \/ doc.AssetType \notin { "", AppleAssetType }

CancelledByCall(w) ==
    /\ last_call.op = "cancel_request"
    /\ frames[w].request_id = last_call.request_id

\* C36: after cancel_request(r), a search in flight with request id r
\* stops at its next cancellation check: the check before a source makes
\* search() return the empty list, the check in the scan of a source
\* makes the scan return no matches.
C36_CancelRequestCancels ==
    [][\A w \in Workers :
          /\ (/\ CancelledByCall(w)
              /\ SearchLoop(w)
              /\ frames[w].di < frames[w].size)
             => frames'[w].pc = "returned" /\ frames'[w].out = << >>
          /\ (/\ CancelledByCall(w)
              /\ FindStep(w)
              /\ frames[w].si < Len(Find(frames[w].query,
                                         frames[w].cur.slob.content)))
             => frames'[w].pc = "loop" /\ frames'[w].matches = << >>]_vars

\* What search(query, limit) returns over the live dictionaries when
\* nothing cancels it.
UncancelledResult(query, limit) ==
    SearchResult(RefConcat(dictionaries, 1, 1..Len(dictionaries), query,
                           limit), limit)

\* C37: once the user has stopped typing with a non-empty search text, the
\* result list comes to show the uncancelled search result for that text
\* and keeps showing it.
C37_NewestSearchAnswered ==
    <>[](search_text # << >>
            => results_list = UncancelledResult(search_text, UiSearchLimit))

\* C38: whenever a search or a resolve can start (no reload is under
\* way), every handle in the live dict is open, also after the main
\* window was closed.
C38_LiveHandlesOpen ==
    main_pc = "idle"
        => \A i \in 1..Len(dictionaries) :
               dictionaries[i].slob \notin closed_slobs

\* The file names that list() reports, and those it reports as enabled.
Listed(meta, dsk) ==
    { get_dictionaries(meta, dsk)[i].filename :
        i \in 1..Len(get_dictionaries(meta, dsk)) }

ListedEnabled(meta, dsk) ==
    { get_dictionaries(meta, dsk)[i].filename :
        i \in { j \in 1..Len(get_dictionaries(meta, dsk)) :
                  get_dictionaries(meta, dsk)[j].enabled } }

\* C39: an import that returns an installed file name leaves a metadata
\* entry for that name, enabled when the entry is new, and list() reports
\* the dictionary.
C39_ImportSuccessHasEntry ==
    [][ (ImportStep /\ last_call'.result # "")
        => /\ MetaHas(metadata', last_call'.result)
           /\ ~MetaHas(metadata, last_call'.result)
                  => metadata'[MetaIndex(metadata', last_call'.result)].enabled
           /\ last_call'.result \in Listed(metadata', disk') ]_vars

\* A registry operation of the application has returned with success and
\* nothing has happened since.
OperationSucceeded ==
    /\ main_pc = "idle"
    /\ \/ last_call.op = "import" /\ last_call.result # ""
       \/ last_call.op \in {"delete", "set_enabled"} /\ last_call.result

\* C40: after a successful import, delete or set_enabled the files of the
\* live handle set are the dictionaries that list() reports as enabled.
C40_LiveSetFollowsRegistry ==
    OperationSucceeded
        => { dictionaries[k].slob.file : k \in 1..Len(dictionaries) }
               = ListedEnabled(metadata, disk)

====
